---- MODULE Spec2Model ----
(***************************************************************************)
(* A model of the geometry kernel of leaflet-ts: LineUtil (clipSegment,    *)
(* simplify), PolyUtil (clipPolygon) and the Point / Bounds value types     *)
(* they work on.                                                            *)
(*                                                                          *)
(* Numbers.  The code computes with IEEE-754 doubles.  The model computes   *)
(* with exact rationals extended by +Infinity, -Infinity and NaN, so that   *)
(* the divisions of getEdgeIntersection and sqClosestPointOnSegment are     *)
(* computed, not assumed away.  A number is a record [n, d]: d > 0 is the   *)
(* reduced fraction n/d; d = 0 is +Infinity (n = 1), -Infinity (n = -1) or  *)
(* NaN (n = 0).  Rounding error of doubles and the sign of zero are not     *)
(* modelled (a zero divisor is +0, which is what x - x yields).             *)
(***************************************************************************)
EXTENDS Integers, Sequences, FiniteSets, TLC

VARIABLES
    lastCode,   \* LineUtil's module-level `let lastCode`
    clip,       \* the activation record of the running clipSegment call
    ref,        \* the same call started with useLastCode = false, run in lockstep
    walk,       \* the callers walking polylines: walker -> cursor
    walkers,    \* how many callers share the module (1 or 2)
    simp,       \* the last call of simplify: its arguments and its result
    poly,       \* the last call of clipPolygon: its arguments and its result
    box,        \* a Bounds object and what it has been extended with
    call,       \* the last call of a function of the kernel: arguments and result
    crs,        \* the CRS singletons, their projection, and the calls made on them
    ev          \* the Evented objects, Util's lastId, and the calls in progress

vars == <<lastCode, clip, ref, walk, walkers, simp, poly, box, call, crs, ev>>

\* the variables of the value types and the coordinate reference systems
kernelVars == <<box, call, crs, ev>>

\* the variables of clipSegment and its callers
clipVars == <<lastCode, clip, ref, walk, walkers>>

\* the variables that clipSegment and its callers leave alone
clipOthers == <<simp, poly, kernelVars>>

\* the variables that simplify leaves alone
simpOthers == <<clipVars, poly, kernelVars>>

\* the variables that clipPolygon leaves alone
polyOthers == <<clipVars, simp, kernelVars>>

----------------------------------------------------------------------------
(* Bounds of the model *)

\* coordinates of input points range over -1 .. MaxCoord
MaxCoord == 3

\* simplify is given at most MaxLen points
MaxLen == 4

\* clipPolygon is given rings of at most MaxRing points
MaxRing == 3

MaxExtends == 3

\* a CRS singleton is called at most MaxCalls times
MaxCalls == 3

\* at most MaxOps calls of the methods of Evented are made
MaxOps == 4

\* stamp is called at most MaxStamps times
MaxStamps == 4

----------------------------------------------------------------------------
(* JavaScript numbers *)

\* F(x, y) with x and y evaluated once, before F is applied
Eval2(F(_, _), x, y) == CHOOSE r \in {F(u, v) : u \in {x}, v \in {y}} : TRUE

Abs(i) == IF i < 0 THEN -i ELSE i

Sgn(i) == IF i < 0 THEN -1 ELSE IF i > 0 THEN 1 ELSE 0

RECURSIVE GCD(_, _)
GCD(a, b) == IF b = 0 THEN a ELSE GCD(b, a % b)

\* the reduced fraction n/d, for d # 0
Frac(n, d) ==
    LET g == GCD(Abs(n), Abs(d))
        s == IF d < 0 THEN -1 ELSE 1
    IN  [n |-> (s * n) \div g, d |-> (s * d) \div g]

Q(i) == [n |-> i, d |-> 1]

NaN == [n |-> 0, d |-> 0]

Inf(s) == [n |-> s, d |-> 0]

IsFinite(x) == x.d > 0

IsNaN(x) == x.d = 0 /\ x.n = 0

NumNeg(x) == Eval2(LAMBDA u, v : [n |-> -u.n, d |-> u.d], x, x)

\* x + y
NumAdd(x, y) ==
    Eval2(LAMBDA u, v :
            IF IsFinite(u) /\ IsFinite(v)
            THEN LET l == (u.d \div GCD(u.d, v.d)) * v.d
                 IN  Frac(u.n * (l \div u.d) + v.n * (l \div v.d), l)
            ELSE IF IsNaN(u) \/ IsNaN(v) THEN NaN
            ELSE IF IsFinite(v) THEN u
            ELSE IF IsFinite(u) THEN v
            ELSE IF u.n = v.n THEN u ELSE NaN,
          x, y)

\* x - y
NumSub(x, y) == NumAdd(x, NumNeg(y))

\* x * y
NumMul(x, y) ==
    Eval2(LAMBDA u, v :
            IF IsFinite(u) /\ IsFinite(v) THEN Frac(u.n * v.n, u.d * v.d)
            ELSE IF IsNaN(u) \/ IsNaN(v) THEN NaN
            ELSE IF u.n = 0 \/ v.n = 0 THEN NaN
            ELSE Inf(Sgn(u.n) * Sgn(v.n)),
          x, y)

\* x / y
NumDiv(x, y) ==
    Eval2(LAMBDA u, v :
            IF IsNaN(u) \/ IsNaN(v) THEN NaN
            ELSE IF IsFinite(u) /\ IsFinite(v)
                 THEN IF v.n # 0 THEN Frac(u.n * v.d, u.d * v.n)
                      ELSE IF u.n = 0 THEN NaN ELSE Inf(Sgn(u.n))
            ELSE IF IsFinite(u) THEN Q(0)
            ELSE IF IsFinite(v) THEN Inf(u.n * (IF v.n < 0 THEN -1 ELSE 1))
            ELSE NaN,
          x, y)

\* x < y (false when either is NaN)
NumLt(x, y) ==
    Eval2(LAMBDA u, v :
            IF IsNaN(u) \/ IsNaN(v) THEN FALSE
            ELSE IF IsFinite(u) /\ IsFinite(v) THEN u.n * v.d < v.n * u.d
            ELSE IF u = v THEN FALSE
            ELSE u = Inf(-1) \/ v = Inf(1),
          x, y)

NumGt(x, y) == NumLt(y, x)

\* x <= y (false when either is NaN)
NumLe(x, y) == Eval2(LAMBDA u, v : (~IsNaN(u) /\ u = v) \/ NumLt(u, v), x, y)

NumGe(x, y) == NumLe(y, x)

\* Math.round: the nearest integer, halves towards +Infinity
MathRound(x) ==
    IF IsFinite(x) THEN Q((2 * x.n + x.d) \div (2 * x.d)) ELSE x

\* Math.trunc of a finite number
NumTrunc(x) ==
    IF x.n >= 0 THEN Q(x.n \div x.d) ELSE Q(-((-x.n) \div x.d))

\* x % y: the remainder of the truncated division, with the sign of x
NumRem(x, y) ==
    Eval2(LAMBDA u, v :
            IF IsNaN(u) \/ IsNaN(v) \/ ~IsFinite(u) \/ v = Q(0) THEN NaN
            ELSE IF ~IsFinite(v) THEN u
            ELSE NumSub(u, NumMul(v, NumTrunc(NumDiv(u, v)))),
          x, y)

----------------------------------------------------------------------------
(* JavaScript values.  The coercions and the constructors take whatever the *)
(* caller passes, so a value carries its type: [t |-> type, v |-> payload]. *)
(* The payload of a number is a number as above, of a string a string, of   *)
(* an array a sequence of values, of a plain object a function from its     *)
(* keys to values, of a class instance the record of its fields.            *)

JsUndefined == [t |-> "undefined", v |-> 0]

JsNull == [t |-> "null", v |-> 0]

JsNum(q) == [t |-> "number", v |-> q]

JsInt(i) == JsNum(Q(i))

JsStr(s) == [t |-> "string", v |-> s]

JsBool(b) == [t |-> "boolean", v |-> b]

JsArr(s) == [t |-> "array", v |-> s]

JsObj(f) == [t |-> "object", v |-> f]

\* the exception a call ends with instead of returning
JsThrow == [t |-> "throw", v |-> 0]

\* a[i] with i counted from 0: undefined outside the array
JsIndex(a, i) == IF i + 1 \in 1..Len(a.v) THEN a.v[i + 1] ELSE JsUndefined

\* typeof x === 'object', for x neither null nor undefined
JsIsObject(x) ==
    x.t \in {"array", "object", "Point", "Bounds", "LatLng", "LatLngBounds"}

\* key in x, for an object x
JsHas(x, key) == x.t # "array" /\ key \in DOMAIN x.v

\* x.key: undefined when x has no such property
JsGet(x, key) == IF JsHas(x, key) THEN x.v[key] ELSE JsUndefined

\* the conversion to boolean of `!x` and `if (x)`
JsTruthy(x) ==
    CASE x.t \in {"undefined", "null"} -> FALSE
      [] x.t = "boolean" -> x.v
      [] x.t = "number" -> ~IsNaN(x.v) /\ x.v # Q(0)
      [] x.t = "string" -> x.v # ""
      [] OTHER -> TRUE

\* the conversion to number of `+x`, Math.round, Math.min and the comparisons
\* (of the strings only "" is numeric here; an array converts as its join)
ToNumber(x) ==
    CASE x.t = "number" -> x.v
      [] x.t = "null" -> Q(0)
      [] x.t = "boolean" -> IF x.v THEN Q(1) ELSE Q(0)
      [] x.t = "string" -> IF x.v = "" THEN Q(0) ELSE NaN
      [] x.t = "array" ->
           IF Len(x.v) = 0 THEN Q(0)
           ELSE IF Len(x.v) = 1 /\ x.v[1].t = "number" THEN x.v[1].v
           ELSE NaN
      [] OTHER -> NaN

\* Number.isNaN(x): true for the number NaN only, without conversion
NumberIsNaN(x) == x.t = "number" /\ IsNaN(x.v)

\* Math.min(x, y) and Math.max(x, y): NaN when either is NaN
MathMin(x, y) ==
    LET u == ToNumber(x)
        w == ToNumber(y)
    IN  JsNum(IF IsNaN(u) \/ IsNaN(w) THEN NaN ELSE IF NumLt(w, u) THEN w ELSE u)

MathMax(x, y) ==
    LET u == ToNumber(x)
        w == ToNumber(y)
    IN  JsNum(IF IsNaN(u) \/ IsNaN(w) THEN NaN ELSE IF NumGt(w, u) THEN w ELSE u)

\* x >= y, x <= y, x > y, x < y on values (numbers here; others convert)
JsGe(x, y) == NumGe(ToNumber(x), ToNumber(y))

JsLe(x, y) == NumLe(ToNumber(x), ToNumber(y))

JsGt(x, y) == NumGt(ToNumber(x), ToNumber(y))

JsLt(x, y) == NumLt(ToNumber(x), ToNumber(y))

----------------------------------------------------------------------------
(* Point and Bounds *)

\* new Point(x, y, round)
NewPoint(x, y, round) ==
    [x |-> IF round THEN MathRound(x) ELSE x,
     y |-> IF round THEN MathRound(y) ELSE y]

\* a point with integer coordinates
Pt(i, j) == NewPoint(Q(i), Q(j), FALSE)

\* a valid Bounds: min and max as Bounds.extend leaves them
MkBounds(x1, y1, x2, y2) == [min |-> Pt(x1, y1), max |-> Pt(x2, y2)]

\* Bounds.contains(point)
Contains(bounds, p) ==
    /\ NumGe(p.x, bounds.min.x)
    /\ NumLe(p.x, bounds.max.x)
    /\ NumGe(p.y, bounds.min.y)
    /\ NumLe(p.y, bounds.max.y)

\* the input points of the model
Points == {Pt(i, j) : i \in -1..MaxCoord, j \in -1..MaxCoord}

\* the clip windows of the model: some hold the origin, some do not
BoundsSet ==
    {MkBounds(x1, y1, MaxCoord - 1, y2) :
        x1 \in 0..1, y1 \in 0..1, y2 \in (MaxCoord - 2)..(MaxCoord - 1)}

----------------------------------------------------------------------------
(* Util *)

\* a wrapNum that takes the remainder once
wrapNumOnce(x, range, includeMax) ==
    LET max == range[2]
        min == range[1]
        d == NumSub(max, min)
    IN  IF x = max /\ includeMax THEN x
        ELSE NumAdd(NumRem(NumSub(x, min), d), min)

\* wrapNum(x, range, includeMax)
wrapNum(x, range, includeMax) ==
    LET max == range[2]
        min == range[1]
        d == NumSub(max, min)
    IN  IF x = max /\ includeMax THEN x
        ELSE NumAdd(NumRem(NumAdd(NumRem(NumSub(x, min), d), d), d), min)

----------------------------------------------------------------------------
(* The classes Point and Bounds on values: what the constructors and the    *)
(* coercions do with whatever they are given.                               *)

\* new Point(x, y, round): the fields take the arguments as they are
JsNewPoint(x, y, round) ==
    [t |-> "Point",
     v |-> [x |-> IF round THEN JsNum(MathRound(ToNumber(x))) ELSE x,
            y |-> IF round THEN JsNum(MathRound(ToNumber(y))) ELSE y]]

\* the Point with the numbers x and y
JsPt(x, y) == JsNewPoint(JsNum(x), JsNum(y), FALSE)

\* Point.clone
clone(p) == JsNewPoint(p.v.x, p.v.y, FALSE)

\* toPoint(x, y = 0, round = false)
toPoint(x, y, round) ==
    IF x.t = "Point" THEN x
    ELSE IF x.t = "array" THEN JsNewPoint(JsIndex(x, 0), JsIndex(x, 1), FALSE)
    ELSE IF x.t \in {"undefined", "null"} THEN x
    ELSE IF JsIsObject(x) /\ JsHas(x, "x") /\ JsHas(x, "y")
    THEN JsNewPoint(JsGet(x, "x"), JsGet(x, "y"), FALSE)
    ELSE JsNewPoint(x, y, round)

\* a Bounds whose min and max are not set yet
EmptyBounds == [t |-> "Bounds", v |-> [min |-> JsUndefined, max |-> JsUndefined]]

\* an extend that lets min follow the last point
extendMinLast(this, point) ==
    LET p == toPoint(point, JsInt(0), FALSE)
    IN  IF p.t # "Point" THEN JsThrow
        ELSE IF ~JsTruthy(this.v.min) \/ ~JsTruthy(this.v.max)
        THEN [t |-> "Bounds", v |-> [min |-> clone(p), max |-> clone(p)]]
        ELSE [t |-> "Bounds",
              v |-> [min |-> JsNewPoint(p.v.x, p.v.y, FALSE),
                     max |-> JsNewPoint(MathMax(p.v.x, this.v.max.v.x),
                                        MathMax(p.v.y, this.v.max.v.y), FALSE)]]

\* Bounds.extend(point): the bounds after the call, or JsThrow when toPoint
\* gives no Point (p.clone and p.x then raise a TypeError)
extend(this, point) ==
    LET p == toPoint(point, JsInt(0), FALSE)
    IN  IF p.t # "Point" THEN JsThrow
        ELSE IF ~JsTruthy(this.v.min) \/ ~JsTruthy(this.v.max)
        THEN [t |-> "Bounds", v |-> [min |-> clone(p), max |-> clone(p)]]
        ELSE [t |-> "Bounds",
              v |-> [min |-> JsNewPoint(MathMin(p.v.x, this.v.min.v.x),
                                        MathMin(p.v.y, this.v.min.v.y), FALSE),
                     max |-> JsNewPoint(MathMax(p.v.x, this.v.max.v.x),
                                        MathMax(p.v.y, this.v.max.v.y), FALSE)]]

\* the loop of the constructor: extend with points[i], points[i + 1], ...
RECURSIVE ExtendAll(_, _, _)
ExtendAll(this, points, i) ==
    IF this.t = "throw" \/ i > Len(points) THEN this
    ELSE ExtendAll(extend(this, points[i]), points, i + 1)

\* points.length and points[i] of the constructor when points is a string:
\* its characters
Chars(s) == [i \in 1..Len(s) |-> JsStr(SubSeq(s, i, i))]

\* new Bounds(a, b)
NewBounds(a, b) ==
    IF ~JsTruthy(a) THEN EmptyBounds
    ELSE LET points == IF JsTruthy(b) THEN JsArr(<<a, b>>) ELSE a
         IN  IF points.t = "array" THEN ExtendAll(EmptyBounds, points.v, 1)
             ELSE IF points.t = "string" THEN ExtendAll(EmptyBounds, Chars(points.v), 1)
             ELSE EmptyBounds

\* toBounds(a, b)
toBounds(a, b) ==
    IF ~JsTruthy(a) \/ a.t = "Bounds" THEN a ELSE NewBounds(a, b)

\* Bounds.contains(obj): true or false, or JsThrow when a min or max it reads
\* is not set
contains(this, obj) ==
    LET o == IF obj.t = "Bounds" THEN toBounds(obj, JsUndefined)
             ELSE toPoint(obj, JsInt(0), FALSE)
        min == IF o.t = "Bounds" THEN o.v.min ELSE o
        max == IF o.t = "Bounds" THEN o.v.max ELSE o
    IN  IF min.t # "Point" \/ max.t # "Point"
           \/ this.v.min.t # "Point" \/ this.v.max.t # "Point"
        THEN JsThrow
        ELSE JsBool(/\ JsGe(min.v.x, this.v.min.v.x)
                    /\ JsLe(max.v.x, this.v.max.v.x)
                    /\ JsGe(min.v.y, this.v.min.v.y)
                    /\ JsLe(max.v.y, this.v.max.v.y))

----------------------------------------------------------------------------
(* Outcodes *)

\* the value of a variable that was never assigned
Undefined == -1

\* ToInt32 of an outcode, as the operators | and & apply it
ToInt32(c) == IF c = Undefined THEN 0 ELSE c

HasBit(c, bit) == (ToInt32(c) \div bit) % 2 = 1

\* c1 | c2
BitOr(c1, c2) ==
    LET B(bit) == IF HasBit(c1, bit) \/ HasBit(c2, bit) THEN bit ELSE 0
    IN  B(1) + B(2) + B(4) + B(8)

\* c1 & c2
BitAnd(c1, c2) ==
    LET B(bit) == IF HasBit(c1, bit) /\ HasBit(c2, bit) THEN bit ELSE 0
    IN  B(1) + B(2) + B(4) + B(8)

\* c1 || c2
OrElse(c1, c2) == IF c1 = Undefined \/ c1 = 0 THEN c2 ELSE c1

\* a getBitCode that counts the boundary as outside
getBitCodeOnEdge(p, bounds) ==
    LET cx == IF NumLe(p.x, bounds.min.x) THEN 1
              ELSE IF NumGe(p.x, bounds.max.x) THEN 2 ELSE 0
        cy == IF NumLe(p.y, bounds.min.y) THEN 4
              ELSE IF NumGe(p.y, bounds.max.y) THEN 8 ELSE 0
    IN  cx + cy

getBitCode(p, bounds) ==
    LET cx == IF NumLt(p.x, bounds.min.x) THEN 1
              ELSE IF NumGt(p.x, bounds.max.x) THEN 2 ELSE 0
        cy == IF NumLt(p.y, bounds.min.y) THEN 4
              ELSE IF NumGt(p.y, bounds.max.y) THEN 8 ELSE 0
    IN  cx + cy

getEdgeIntersection(a, b, code, bounds, round) ==
    LET dx  == NumSub(b.x, a.x)
        dy  == NumSub(b.y, a.y)
        min == bounds.min
        max == bounds.max
    IN  IF HasBit(code, 8)
        THEN NewPoint(NumAdd(a.x, NumDiv(NumMul(dx, NumSub(max.y, a.y)), dy)),
                      max.y, round)
        ELSE IF HasBit(code, 4)
        THEN NewPoint(NumAdd(a.x, NumDiv(NumMul(dx, NumSub(min.y, a.y)), dy)),
                      min.y, round)
        ELSE IF HasBit(code, 2)
        THEN NewPoint(max.x,
                      NumAdd(a.y, NumDiv(NumMul(dy, NumSub(max.x, a.x)), dx)),
                      round)
        ELSE IF HasBit(code, 1)
        THEN NewPoint(min.x,
                      NumAdd(a.y, NumDiv(NumMul(dy, NumSub(min.x, a.x)), dx)),
                      round)
        ELSE NewPoint(Q(0), Q(0), round)

----------------------------------------------------------------------------
(* clipSegment, one step per position in its code *)

\* the `false` that clipSegment returns for "no segment"
False == <<>>

\* no call has been made yet
IdleFrame ==
    [pc |-> "idle", a |-> Pt(0, 0), b |-> Pt(0, 0), codeA |-> 0, codeB |-> 0,
     bounds |-> MkBounds(0, 0, 0, 0), round |-> FALSE, useLastCode |-> FALSE,
     argA |-> Pt(0, 0), argB |-> Pt(0, 0), firstCode |-> 0, result |-> False]

\* entry of clipSegment with the second outcode taken from a
ClipEnterFirstTwice(a, b, bounds, useLastCode, round, last) ==
    [pc |-> "test", a |-> a, b |-> b,
     codeA |-> IF useLastCode THEN last ELSE getBitCode(a, bounds),
     codeB |-> getBitCode(a, bounds),
     bounds |-> bounds, round |-> round, useLastCode |-> useLastCode,
     argA |-> a, argB |-> b,
     firstCode |-> IF useLastCode THEN last ELSE getBitCode(a, bounds),
     result |-> False]

\* entry of clipSegment: the two outcodes, `last` being lastCode at the call.
\* argA, argB and firstCode keep the arguments and the first value of codeA.
ClipEnter(a, b, bounds, useLastCode, round, last) ==
    [pc |-> "test", a |-> a, b |-> b,
     codeA |-> IF useLastCode THEN last ELSE getBitCode(a, bounds),
     codeB |-> getBitCode(b, bounds),
     bounds |-> bounds, round |-> round, useLastCode |-> useLastCode,
     argA |-> a, argB |-> b,
     firstCode |-> IF useLastCode THEN last ELSE getBitCode(a, bounds),
     result |-> False]

\* the first code saved instead of the second
ClipSaveFirst(codeA, codeB) == codeA

\* the code that `lastCode = codeB` saves for the next call
ClipSave(codeA, codeB) == codeB

\* !(codeA | codeB): trivial accept
TrivialAccept(f) == BitOr(f.codeA, f.codeB) = 0

\* codeA & codeB: trivial reject
TrivialReject(f) == BitAnd(f.codeA, f.codeB) # 0

\* the condition of the while loop
LoopCond(f) == TrivialAccept(f) \/ TrivialReject(f)

\* the loop test: into the body, or out of the loop
ClipTestFn(f) == [f EXCEPT !.pc = IF LoopCond(f) THEN "body" ELSE "exit"]

\* the loop body from `p = getEdgeIntersection(...)` on: the endpoint that
\* codeOut belongs to is replaced by p
ClipReplace(f, codeOut, p) ==
    IF codeOut = f.codeA
    THEN [f EXCEPT !.a = p, !.codeA = getBitCode(p, f.bounds), !.pc = "test"]
    ELSE [f EXCEPT !.b = p, !.codeB = getBitCode(p, f.bounds), !.pc = "test"]

\* one pass through the loop body
ClipBodyFn(f) ==
    Eval2(LAMBDA codeOut, p : ClipReplace(f, codeOut, p),
          OrElse(f.codeA, f.codeB),
          getEdgeIntersection(f.a, f.b, OrElse(f.codeA, f.codeB),
                              f.bounds, f.round))

\* the statements after the loop
ClipReturnFn(f) ==
    [f EXCEPT !.pc = "done",
              !.result = IF TrivialAccept(f) THEN <<f.a, f.b>> ELSE False]

\* the next position of an activation, whatever its position
ClipStepFn(f) ==
    CASE f.pc = "test" -> ClipTestFn(f)
      [] f.pc = "body" -> ClipBodyFn(f)
      [] f.pc = "exit" -> ClipReturnFn(f)
      [] OTHER -> f

\* clipSegment can be called: no call is running (calls are synchronous)
CanCall == clip.pc = "idle"

\* the call clipSegment(a, b, bounds, useLastCode, round)
DoCall(a, b, bounds, useLastCode, round) ==
    /\ clip' = ClipEnter(a, b, bounds, useLastCode, round, lastCode)
    /\ ref' = ClipEnter(a, b, bounds, FALSE, round, lastCode)
    /\ lastCode' = ClipSave(clip'.codeA, clip'.codeB)

\* any caller, any arguments
ClipCall ==
    /\ CanCall
    /\ \E a \in Points, b \in Points, bounds \in BoundsSet,
          useLastCode \in BOOLEAN, round \in BOOLEAN :
            DoCall(a, b, bounds, useLastCode, round)
    /\ UNCHANGED <<walk, walkers>>
    /\ UNCHANGED clipOthers

ClipTest ==
    /\ clip.pc = "test"
    /\ clip' = ClipTestFn(clip)
    /\ ref' = ClipStepFn(ref)
    /\ UNCHANGED <<lastCode, walk, walkers>>
    /\ UNCHANGED clipOthers

ClipBody ==
    /\ clip.pc = "body"
    /\ clip' = ClipBodyFn(clip)
    /\ ref' = ClipStepFn(ref)
    /\ UNCHANGED <<lastCode, walk, walkers>>
    /\ UNCHANGED clipOthers

ClipReturn ==
    /\ clip.pc = "exit"
    /\ clip' = ClipReturnFn(clip)
    /\ ref' = ClipStepFn(ref)
    /\ UNCHANGED <<lastCode, walk, walkers>>
    /\ UNCHANGED clipOthers

\* the caller has taken the returned value: the activation is gone
ClipRelease ==
    /\ clip.pc = "done"
    /\ clip' = IdleFrame
    /\ ref' = IdleFrame
    /\ UNCHANGED <<lastCode, walk, walkers>>
    /\ UNCHANGED clipOthers

\* simplify has not been called
SimpIdle == [called |-> FALSE, points |-> <<>>, tolerance |-> Q(0), out |-> <<>>]

\* clipPolygon has not been called
PolyIdle ==
    [called |-> FALSE, points |-> <<>>, bounds |-> MkBounds(0, 0, 0, 0),
     round |-> FALSE, out |-> <<>>]

\* a caller that has not started
IdleWalker == [started |-> FALSE, at |-> Pt(0, 0), bounds |-> MkBounds(0, 0, 0, 0)]

\* Bounds.intersects(bounds): true or false, or JsThrow when a min or max it
\* reads is not set
intersects(this, bounds) ==
    LET b2 == toBounds(bounds, JsUndefined)
    IN  IF b2.t # "Bounds" \/ b2.v.min.t # "Point" \/ b2.v.max.t # "Point"
           \/ this.v.min.t # "Point" \/ this.v.max.t # "Point"
        THEN JsThrow
        ELSE LET min == this.v.min.v
                 max == this.v.max.v
                 min2 == b2.v.min.v
                 max2 == b2.v.max.v
                 xIntersects == JsGe(max2.x, min.x) /\ JsLe(min2.x, max.x)
                 yIntersects == JsGe(max2.y, min.y) /\ JsLe(min2.y, max.y)
             IN  JsBool(xIntersects /\ yIntersects)

\* Bounds.overlaps(bounds): true or false, or JsThrow when a min or max it
\* reads is not set
overlaps(this, bounds) ==
    LET b2 == toBounds(bounds, JsUndefined)
    IN  IF b2.t # "Bounds" \/ b2.v.min.t # "Point" \/ b2.v.max.t # "Point"
           \/ this.v.min.t # "Point" \/ this.v.max.t # "Point"
        THEN JsThrow
        ELSE LET min == this.v.min.v
                 max == this.v.max.v
                 min2 == b2.v.min.v
                 max2 == b2.v.max.v
                 xOverlaps == JsGt(max2.x, min.x) /\ JsLt(min2.x, max.x)
                 yOverlaps == JsGt(max2.y, min.y) /\ JsLt(min2.y, max.y)
             IN  JsBool(xOverlaps /\ yOverlaps)

\* new LatLng(lat, lng, alt): the object, or JsThrow for the Error
NewLatLng(lat, lng, alt) ==
    IF NumberIsNaN(lat) \/ NumberIsNaN(lng) THEN JsThrow
    ELSE [t |-> "LatLng",
          v |-> [lat |-> JsNum(ToNumber(lat)),
                 lng |-> JsNum(ToNumber(lng)),
                 alt |-> IF alt.t # "undefined" THEN JsNum(ToNumber(alt))
                         ELSE JsUndefined]]

\* toLatLng(a, b, c)
toLatLng(a, b, c) ==
    IF a.t = "LatLng" THEN a
    ELSE IF a.t = "array" /\ JsIndex(a, 0).t = "number"
    THEN IF Len(a.v) = 3
         THEN NewLatLng(JsIndex(a, 0), JsIndex(a, 1), JsIndex(a, 2))
         ELSE IF Len(a.v) = 2
         THEN NewLatLng(JsIndex(a, 0), JsIndex(a, 1), JsUndefined)
         ELSE JsNull
    ELSE IF a.t \in {"undefined", "null"} THEN a
    ELSE IF JsIsObject(a) /\ JsHas(a, "lat")
    THEN NewLatLng(JsGet(a, "lat"),
                   IF JsHas(a, "lng") THEN JsGet(a, "lng") ELSE JsGet(a, "lon"),
                   JsGet(a, "alt"))
    ELSE IF b.t = "undefined" THEN JsNull
    ELSE IF a.t = "number" THEN NewLatLng(a, b, c)
    ELSE JsNull

\* a LatLngBounds whose corners are not set yet
EmptyLatLngBounds ==
    [t |-> "LatLngBounds", v |-> [southWest |-> JsUndefined, northEast |-> JsUndefined]]

\* the LatLngBounds with the corners sw and ne
LatLngBoundsOf(sw, ne) ==
    [t |-> "LatLngBounds", v |-> [southWest |-> sw, northEast |-> ne]]

\* the assignments of LatLngBounds.extend once sw2 and ne2 are known: the
\* bounds after them, or JsThrow
ExtendCorners(this, sw2, ne2) ==
    LET sw == this.v.southWest
        ne == this.v.northEast
    IN  IF ~JsTruthy(sw) /\ ~JsTruthy(ne)
        THEN LET newSw == NewLatLng(sw2.v.lat, sw2.v.lng, JsUndefined)
                 newNe == NewLatLng(ne2.v.lat, ne2.v.lng, JsUndefined)
             IN  IF newSw.t = "throw" \/ newNe.t = "throw" THEN JsThrow
                 ELSE LatLngBoundsOf(newSw, newNe)
        ELSE IF ~JsTruthy(sw) \/ ~JsTruthy(ne) THEN JsThrow
        ELSE LatLngBoundsOf(
                 [sw EXCEPT !.v.lat = MathMin(sw2.v.lat, sw.v.lat),
                            !.v.lng = MathMin(sw2.v.lng, sw.v.lng)],
                 [ne EXCEPT !.v.lat = MathMax(ne2.v.lat, ne.v.lat),
                            !.v.lng = MathMax(ne2.v.lng, ne.v.lng)])

RECURSIVE extendLatLngBounds(_, _)
RECURSIVE ExtendAllLatLng(_, _, _)
RECURSIVE NewLatLngBounds(_, _)

\* LatLngBounds.extend(obj): the bounds after the call, or JsThrow
extendLatLngBounds(this, obj) ==
    IF obj.t = "LatLng" THEN ExtendCorners(this, obj, obj)
    ELSE IF obj.t = "LatLngBounds"
    THEN IF ~JsTruthy(obj.v.southWest) \/ ~JsTruthy(obj.v.northEast) THEN this
         ELSE ExtendCorners(this, obj.v.southWest, obj.v.northEast)
    ELSE IF ~JsTruthy(obj) THEN this
    ELSE LET ll == toLatLng(obj, JsUndefined, JsUndefined)
         IN  IF ll.t = "throw" THEN JsThrow
             ELSE IF ll.t = "LatLng" THEN extendLatLngBounds(this, ll)
             ELSE LET other == NewLatLngBounds(obj, JsUndefined)
                  IN  IF other.t = "throw" THEN JsThrow
                      ELSE extendLatLngBounds(this, other)

\* the loop of the constructor: extend with latlngs[i], latlngs[i + 1], ...
ExtendAllLatLng(this, latlngs, i) ==
    IF this.t = "throw" \/ i > Len(latlngs) THEN this
    ELSE ExtendAllLatLng(extendLatLngBounds(this, latlngs[i]), latlngs, i + 1)

\* new LatLngBounds(corner1, corner2): the bounds, or JsThrow (a string as
\* corner1 is extended with its characters, each of which is extended with
\* itself again without end: the call ends with a RangeError)
NewLatLngBounds(corner1, corner2) ==
    IF ~JsTruthy(corner1) THEN EmptyLatLngBounds
    ELSE IF JsTruthy(corner2)
    THEN ExtendAllLatLng(EmptyLatLngBounds, <<corner1, corner2>>, 1)
    ELSE IF corner1.t = "array" THEN ExtendAllLatLng(EmptyLatLngBounds, corner1.v, 1)
    ELSE IF corner1.t = "string" THEN JsThrow
    ELSE EmptyLatLngBounds

\* toLatLngBounds(a, b)
toLatLngBounds(a, b) ==
    IF a.t = "LatLngBounds" THEN a ELSE NewLatLngBounds(a, b)

\* Math.abs
MathAbs(x) == IF NumLt(x, Q(0)) THEN NumNeg(x) ELSE x

\* LatLngBounds.pad(bufferRatio): val is the bounds returned, a new object,
\* and this is the receiver after the call (no statement assigns to it)
pad(this, bufferRatio) ==
    LET sw == this.v.southWest
        ne == this.v.northEast
        heightBuffer == NumMul(MathAbs(NumSub(ToNumber(sw.v.lat), ToNumber(ne.v.lat))),
                               bufferRatio)
        widthBuffer == NumMul(MathAbs(NumSub(ToNumber(sw.v.lng), ToNumber(ne.v.lng))),
                              bufferRatio)
    IN  [val |-> NewLatLngBounds(
                     NewLatLng(JsNum(NumSub(ToNumber(sw.v.lat), heightBuffer)),
                               JsNum(NumSub(ToNumber(sw.v.lng), widthBuffer)),
                               JsUndefined),
                     NewLatLng(JsNum(NumAdd(ToNumber(ne.v.lat), heightBuffer)),
                               JsNum(NumAdd(ToNumber(ne.v.lng), widthBuffer)),
                               JsUndefined)),
         this |-> this]

\* LatLngBounds.getCenter
getCenter(this) ==
    NewLatLng(
        JsNum(NumDiv(NumAdd(ToNumber(this.v.southWest.v.lat),
                            ToNumber(this.v.northEast.v.lat)), Q(2))),
        JsNum(NumDiv(NumAdd(ToNumber(this.v.southWest.v.lng),
                            ToNumber(this.v.northEast.v.lng)), Q(2))),
        JsUndefined)

\* new Transformation(a, b, c, d)
NewTransformation(a, b, c, d) == [a |-> a, b |-> b, c |-> c, d |-> d]

\* Transformation._transform(point, scale): it assigns to the fields of point
\* and returns point, so val, the object returned, is also what the argument
\* is after the call
_transform(this, point, scale) ==
    LET r == JsPt(NumMul(scale, NumAdd(NumMul(this.a, ToNumber(point.v.x)), this.b)),
                  NumMul(scale, NumAdd(NumMul(this.c, ToNumber(point.v.y)), this.d)))
    IN  [val |-> r, point |-> r]

\* a transform that works on the point it is given
transformInPlace(this, point, scale) == _transform(this, point, scale)

\* Transformation.transform(point, scale): _transform works on a clone, the
\* argument is after the call what it was
transform(this, point, scale) ==
    [val |-> _transform(this, clone(point), scale).val, point |-> point]

\* an untransform that divides by scale after subtracting b and d
untransformScaleLast(this, point, scale) ==
    JsPt(NumDiv(NumDiv(NumSub(ToNumber(point.v.x), this.b), scale), this.a),
         NumDiv(NumDiv(NumSub(ToNumber(point.v.y), this.d), scale), this.c))

\* Transformation.untransform(point, scale)
untransform(this, point, scale) ==
    JsPt(NumDiv(NumSub(NumDiv(ToNumber(point.v.x), scale), this.b), this.a),
         NumDiv(NumSub(NumDiv(ToNumber(point.v.y), scale), this.d), this.c))

\* the singleton EPSG4326: an Earth CRS over the plate-carree projection
EPSG4326 ==
    [code |-> JsStr("4326"),
     projection |-> "LonLat",
     transformation |-> NewTransformation(Frac(1, 180), Q(1), Frac(-1, 180), Frac(1, 2)),
     wrapLng |-> JsArr(<<JsInt(-180), JsInt(180)>>),
     wrapLat |-> JsUndefined,
     infinite |-> FALSE]

\* the singleton Simple: the planar CRS
Simple ==
    [code |-> JsUndefined,
     projection |-> "LonLat",
     transformation |-> NewTransformation(Q(1), Q(0), Q(-1), Q(0)),
     wrapLng |-> JsUndefined,
     wrapLat |-> JsUndefined,
     infinite |-> TRUE]

\* the range [min, max] of a wrapLng or wrapLat
RangeOf(wrap) == <<wrap.v[1].v, wrap.v[2].v>>

\* a wrapLatLng that does not keep a longitude on the upper end of the range
wrapLatLngBelowMax(this, latlng) ==
    LET lng == IF JsTruthy(this.wrapLng)
               THEN JsNum(wrapNum(ToNumber(latlng.v.lng), RangeOf(this.wrapLng), FALSE))
               ELSE latlng.v.lng
        lat == IF JsTruthy(this.wrapLat)
               THEN JsNum(wrapNum(ToNumber(latlng.v.lat), RangeOf(this.wrapLat), FALSE))
               ELSE latlng.v.lat
    IN  NewLatLng(lat, lng, latlng.v.alt)

\* CRS.wrapLatLng(latlng)
wrapLatLng(this, latlng) ==
    LET lng == IF JsTruthy(this.wrapLng)
               THEN JsNum(wrapNum(ToNumber(latlng.v.lng), RangeOf(this.wrapLng), TRUE))
               ELSE latlng.v.lng
        lat == IF JsTruthy(this.wrapLat)
               THEN JsNum(wrapNum(ToNumber(latlng.v.lat), RangeOf(this.wrapLat), TRUE))
               ELSE latlng.v.lat
        alt == latlng.v.alt
    IN  NewLatLng(lat, lng, alt)

\* CRS.wrapLatLngBounds(bounds): ref tells whether the object returned is the
\* argument or a new one, val is the object returned, and bounds is the
\* argument after the call (no statement of the call assigns to it)
wrapLatLngBounds(this, bounds) ==
    LET center == getCenter(bounds)
        newCenter == wrapLatLng(this, center)
        latShift == NumSub(ToNumber(center.v.lat), ToNumber(newCenter.v.lat))
        lngShift == NumSub(ToNumber(center.v.lng), ToNumber(newCenter.v.lng))
        sw == bounds.v.southWest
        ne == bounds.v.northEast
        newSw == NewLatLng(JsNum(NumSub(ToNumber(sw.v.lat), latShift)),
                           JsNum(NumSub(ToNumber(sw.v.lng), lngShift)), JsUndefined)
        newNe == NewLatLng(JsNum(NumSub(ToNumber(ne.v.lat), latShift)),
                           JsNum(NumSub(ToNumber(ne.v.lng), lngShift)), JsUndefined)
    IN  IF latShift = Q(0) /\ lngShift = Q(0)
        THEN [ref |-> "bounds", val |-> bounds, bounds |-> bounds]
        ELSE [ref |-> "new", val |-> NewLatLngBounds(newSw, newNe), bounds |-> bounds]

\* Math.pow(2, zoom), for an integer zoom
RECURSIVE MathPow2(_)
MathPow2(zoom) ==
    IF zoom = Q(0) THEN Q(1)
    ELSE IF NumLt(zoom, Q(0)) THEN NumDiv(MathPow2(NumAdd(zoom, Q(1))), Q(2))
    ELSE NumMul(Q(2), MathPow2(NumSub(zoom, Q(1))))

\* Math.log(x) / Math.LN2, for x a power of two
MathLog2(x) == CHOOSE z \in {Q(k) : k \in -12..12} : MathPow2(z) = x

\* Math.sqrt(x), for x the square of an integer
MathSqrt(x) == CHOOSE r \in {Q(k) : k \in 0..12} : NumMul(r, r) = x

\* the plate-carree projection: its bounds
LonLat == [bounds |-> NewBounds(JsPt(Q(-180), Q(-90)), JsPt(Q(180), Q(90)))]

\* LonLat.project(latlng): a new Point(lng, lat)
LonLatProject(latlng) == JsNewPoint(latlng.v.lng, latlng.v.lat, FALSE)

\* LonLat.unproject(point): a new LatLng(y, x)
LonLatUnproject(point) == NewLatLng(point.v.y, point.v.x, JsUndefined)

\* the singletons after the construction of the modules: the two CRS over
\* LonLat, which hold the projection by reference, and the projection
Singletons == [EPSG4326 |-> EPSG4326, Simple |-> Simple, LonLat |-> LonLat]

\* A method of a CRS is modelled on objs, the singletons before the call, and
\* name, the singleton called; it gives val, the value returned, objs, the
\* singletons after the call, and args, the arguments after the call.

\* CRS.scale(zoom), and the override of Simple
scale(objs, name, zoom) ==
    [val |-> IF name = "Simple" THEN MathPow2(zoom) ELSE NumMul(Q(256), MathPow2(zoom)),
     objs |-> objs, args |-> <<zoom>>]

\* CRS.zoom(scale), and the override of Simple
zoom(objs, name, s) ==
    [val |-> IF name = "Simple" THEN MathLog2(s) ELSE MathLog2(NumDiv(s, Q(256))),
     objs |-> objs, args |-> <<s>>]

\* CRS.project(latlng)
project(objs, name, latlng) ==
    [val |-> LonLatProject(latlng), objs |-> objs, args |-> <<latlng>>]

\* CRS.unproject(point)
unproject(objs, name, point) ==
    [val |-> LonLatUnproject(point), objs |-> objs, args |-> <<point>>]

\* CRS.latLngToPoint(latlng, zoom): _transform assigns to projectedPoint, the
\* point that project has just created, and that point is returned
latLngToPoint(objs, name, latlng, z) ==
    LET projectedPoint == LonLatProject(latlng)
        s == scale(objs, name, z).val
        moved == _transform(objs[name].transformation, projectedPoint, s)
    IN  [val |-> moved.point, objs |-> objs, args |-> <<latlng, z>>]

\* CRS.pointToLatLng(point, zoom)
pointToLatLng(objs, name, point, z) ==
    LET s == scale(objs, name, z).val
        untransformedPoint == untransform(objs[name].transformation, point, s)
    IN  [val |-> LonLatUnproject(untransformedPoint), objs |-> objs, args |-> <<point, z>>]

\* CRS.getProjectedBounds(zoom): b.min and b.max, the corners of the bounds
\* of the projection, are handed to transform, and are after the call what
\* transform has left of them
getProjectedBounds(objs, name, z) ==
    IF objs[name].infinite THEN [val |-> JsNull, objs |-> objs, args |-> <<z>>]
    ELSE LET projection == objs[name].projection
             b == objs[projection].bounds
             s == scale(objs, name, z).val
             min == transform(objs[name].transformation, b.v.min, s)
             max == transform(objs[name].transformation, b.v.max, s)
         IN  [val |-> NewBounds(min.val, max.val),
              objs |-> [objs EXCEPT ![projection].bounds.v.min = min.point,
                                    ![projection].bounds.v.max = max.point],
              args |-> <<z>>]

\* Simple.distance(latlng1, latlng2), for coordinates whose distance is an
\* integer
SimpleDistance(latlng1, latlng2) ==
    LET dx == NumSub(ToNumber(latlng2.v.lng), ToNumber(latlng1.v.lng))
        dy == NumSub(ToNumber(latlng2.v.lat), ToNumber(latlng1.v.lat))
    IN  JsNum(MathSqrt(NumAdd(NumMul(dx, dx), NumMul(dy, dy))))

\* Earth.distance(latlng1, latlng2): the sines, cosines and the arc tangent
\* are not evaluated; the number returned is kept as the term of the four
\* coordinates that the method reads
EarthDistance(latlng1, latlng2) ==
    [t |-> "number",
     v |-> [haversine |-> <<latlng1.v.lat.v, latlng1.v.lng.v,
                            latlng2.v.lat.v, latlng2.v.lng.v>>]]

\* CRS.distance(latlng1, latlng2)
distance(objs, name, latlng1, latlng2) ==
    [val |-> IF name = "Simple" THEN SimpleDistance(latlng1, latlng2)
             ELSE EarthDistance(latlng1, latlng2),
     objs |-> objs, args |-> <<latlng1, latlng2>>]

\* the singletons as constructed, not called yet
NewCrs == [objs |-> Singletons, calls |-> 0]

\* The objects of class Evented, and the objects that stamp is given. An
\* event has one type here; this._events is -1 for null, 0 for an object
\* without the type, and otherwise the array of the listeners of the type, as
\* its index in arrays; a listener object is its index in lst.
EvObjs == 1..3

StampObjs == 1..4

\* stamp that takes a new ID on every call
stampAfresh(E, obj) ==
    [val |-> E.lastId + 1,
     E |-> [E EXCEPT !.lastId = E.lastId + 1, !.ids[obj] = E.lastId + 1]]

\* stamp(obj): val is the ID returned, E is the state after the call;
\* ids[obj] is obj._leaflet_id, 0 for undefined
stamp(E, obj) ==
    IF E.ids[obj] # 0 THEN [val |-> E.ids[obj], E |-> E]
    ELSE [val |-> E.lastId + 1,
          E |-> [E EXCEPT !.lastId = E.lastId + 1, !.ids[obj] = E.lastId + 1]]

\* the closures that once creates
HandlerNames == <<"handler1", "handler2", "handler3", "handler4", "handler5">>

IsHandler(fn) == \E k \in DOMAIN HandlerNames : HandlerNames[k] = fn

HandlerIndex(fn) == CHOOSE k \in DOMAIN HandlerNames : HandlerNames[k] = fn

\* context === this ? undefined : context
Ctx(context) == IF context = "this" THEN "undefined" ELSE context

\* Array.prototype.splice(i, 1)
Splice(s, i) == SubSeq(s, 1, i - 1) \o SubSeq(s, i + 1, Len(s))

\* the listeners of this._events[type]: none for null and for a missing type
Listeners(E, o) == IF E.events[o] > 0 THEN E.arrays[E.events[o]] ELSE <<>>

\* an _on that does not look for the listener among those registered
_onAgain(E, o, fn, context, by) ==
    LET E1 == IF E.events[o] = -1 THEN [E EXCEPT !.events[o] = 0] ELSE E
        E2 == IF E1.events[o] = 0
              THEN [E1 EXCEPT !.arrays = Append(E1.arrays, <<>>),
                              !.events[o] = Len(E1.arrays) + 1]
              ELSE E1
        a == E2.events[o]
        newListener == [fn |-> fn, ctx |-> Ctx(context), reg |-> fn, by |-> by,
                        removed |-> FALSE, calls |-> 0, late |-> FALSE]
    IN  [E2 EXCEPT !.lst = Append(E2.lst, newListener),
                   !.arrays[a] = Append(E2.arrays[a], Len(E2.lst) + 1)]

\* Evented._on(type, fn, context). A listener object { fn, ctx } carries what
\* the properties read: reg, the function it was registered with, by, the
\* method that registered it, removed, whether an off has removed it, calls,
\* the number of times its function has been called, late, whether it was
\* called after it was removed.
_on(E, o, fn, context, by) ==
    LET E1 == IF E.events[o] = -1 THEN [E EXCEPT !.events[o] = 0] ELSE E
        E2 == IF E1.events[o] = 0
              THEN [E1 EXCEPT !.arrays = Append(E1.arrays, <<>>),
                              !.events[o] = Len(E1.arrays) + 1]
              ELSE E1
        ctx == Ctx(context)
        a == E2.events[o]
        listeners == E2.arrays[a]
        newListener == [fn |-> fn, ctx |-> ctx, reg |-> fn, by |-> by,
                        removed |-> FALSE, calls |-> 0, late |-> FALSE]
    IN  IF \E i \in DOMAIN listeners :
              E2.lst[listeners[i]].fn = fn /\ E2.lst[listeners[i]].ctx = ctx
        THEN E2
        ELSE [E2 EXCEPT !.lst = Append(E2.lst, newListener),
                        !.arrays[a] = Append(listeners, Len(E2.lst) + 1)]

\* the listener objects of ls have their fn set to falseFn
Silenced(lst, ls) ==
    [l \in DOMAIN lst |->
        IF l \in ls THEN [lst[l] EXCEPT !.fn = "falseFn", !.removed = TRUE] ELSE lst[l]]

\* Evented._off(type, fn, context); fn is "undefined" when it is not given
_off(E, o, fn, context) ==
    IF E.events[o] <= 0 THEN E
    ELSE LET a == E.events[o]
             listeners == E.arrays[a]
             ctx == Ctx(context)
             found == {i \in DOMAIN listeners :
                          E.lst[listeners[i]].ctx = ctx /\ E.lst[listeners[i]].fn = fn}
         IN  IF fn = "undefined"
             THEN [E EXCEPT !.lst = Silenced(E.lst, {listeners[i] : i \in DOMAIN listeners}),
                            !.arrays = Append(E.arrays, <<>>),
                            !.events[o] = Len(E.arrays) + 1]
             ELSE IF found = {} THEN E
             ELSE LET i == CHOOSE j \in found : \A k \in found : j <= k
                      E1 == [E EXCEPT !.lst = Silenced(E.lst, {listeners[i]})]
                  IN  IF E.firingCount[o] # 0
                      THEN [E1 EXCEPT !.arrays = Append(E.arrays, Splice(listeners, i)),
                                      !.events[o] = Len(E.arrays) + 1]
                      ELSE [E1 EXCEPT !.arrays[a] = Splice(listeners, i)]

\* Evented.off(): this._events = null. The listener objects are not touched;
\* removed records that the listeners of the object have been removed
offAll(E, o) ==
    LET ls == {Listeners(E, o)[i] : i \in DOMAIN Listeners(E, o)}
    IN  [E EXCEPT !.events[o] = -1,
                  !.lst = [l \in DOMAIN E.lst |->
                             IF l \in ls THEN [E.lst[l] EXCEPT !.removed = TRUE]
                             ELSE E.lst[l]]]

\* Evented.once(type, fn, context): handler is a new closure that takes fn
\* and itself off; onces[k] holds what the k-th closure has captured
once(E, o, fn, context) ==
    LET k == Len(E.onces) + 1
        handler == HandlerNames[k]
        E1 == [E EXCEPT !.onces = Append(E.onces, [fn |-> fn, context |-> context])]
    IN  _on(_on(E1, o, fn, context, "once"), o, handler, context, "handler")

\* the body of the closure handler, called on the object o
RunHandler(E, o, handler) ==
    LET c == E.onces[HandlerIndex(handler)]
    IN  _off(_off(E, o, c.fn, c.context), o, handler, c.context)

\* this._eventParents, a set of <<id, parent>>: the parents of o in the
\* order of for-in, which is that of the IDs
RECURSIVE InOrder(_)
InOrder(pairs) ==
    IF pairs = {} THEN <<>>
    ELSE LET first == CHOOSE p \in pairs : \A q \in pairs : p[1] <= q[1]
         IN  <<first[2]>> \o InOrder(pairs \ {first})

\* a listens that does not ask the parents
listensOwn(E, o, propagate) == Len(Listeners(E, o)) > 0

\* Evented.listens(type, propagate)
RECURSIVE listens(_, _, _)
listens(E, o, propagate) ==
    \/ Len(Listeners(E, o)) > 0
    \/ /\ propagate
       /\ \E p \in E.parents[o] : listens(E, p[2], propagate)

\* Evented.addEventParent(obj)
addEventParent(E, o, obj) ==
    LET s == stamp(E, obj)
    IN  [s.E EXCEPT !.parents[o] = {p \in @ : p[1] # s.val} \cup {<<s.val, obj>>}]

\* Evented.removeEventParent(obj)
removeEventParent(E, o, obj) ==
    LET s == stamp(E, obj)
    IN  [s.E EXCEPT !.parents[o] = {p \in @ : p[1] # s.val}]

\* the parents of the objects of S, their parents, and so on, n times
RECURSIVE Up(_, _, _)
Up(E, S, n) ==
    IF n = 0 THEN S
    ELSE Up(E, S \cup {p[2] : p \in UNION {E.parents[x] : x \in S}}, n - 1)

\* the objects that o propagates to, directly and through its parents
Ancestors(E, o) == Up(E, {p[2] : p \in E.parents[o]}, Cardinality(EvObjs))

\* there is no call of fire in progress
NoFire == [obj |-> 0, propagate |-> FALSE, start |-> <<>>, invoked |-> <<>>]

\* Evented.fire(type, data, propagate), up to the loop: src is
\* data.sourceTarget, 0 when data has none. The frame of the call holds the
\* array it walks (0 for none), i and len, and the event's target (obj) and
\* sourceTarget (src); start and invoked record the listeners the array had
\* and those whose function the call has called.
fire(E, o, propagate, src) ==
    IF ~listens(E, o, propagate) THEN E
    ELSE LET a == IF E.events[o] > 0 THEN E.events[o] ELSE 0
             frame == [pc |-> IF a > 0 THEN "loop" ELSE "propagate",
                       obj |-> o, src |-> IF src # 0 THEN src ELSE o,
                       propagate |-> propagate, arr |-> a, i |-> 1,
                       len |-> IF a > 0 THEN Len(E.arrays[a]) ELSE 0,
                       todo |-> IF propagate THEN InOrder(E.parents[o]) ELSE <<>>,
                       root |-> E.stack = <<>>,
                       start |-> IF a > 0 THEN E.arrays[a] ELSE <<>>,
                       invoked |-> <<>>, lid |-> 0]
         IN  [E EXCEPT !.stack = Append(E.stack, frame),
                       !.firingCount[o] = IF a > 0 THEN @ + 1 ELSE @]

\* three objects constructed (_events = {}, no parents, _firingCount = 0),
\* lastId = 0, nothing stamped, no call in progress
NewEvented ==
    [events |-> [o \in EvObjs |-> 0],
     parents |-> [o \in EvObjs |-> {}],
     firingCount |-> [o \in EvObjs |-> 0],
     arrays |-> <<>>,
     lst |-> <<>>,
     onces |-> <<>>,
     lastId |-> 0,
     ids |-> [o \in StampObjs |-> 0],
     stack |-> <<>>,
     ops |-> 0,
     root |-> [obj |-> 0, propagate |-> FALSE, at |-> 0],
     last |-> NoFire,
     got |-> {}]

\* new Bounds(): no min, no max, extended with nothing
NewBox == [b |-> EmptyBounds, prev |-> EmptyBounds, seen |-> {}, n |-> 0]

\* no function of the kernel has been called
NoCall == [op |-> "none", args |-> <<>>, out |-> JsUndefined]

ClipInit ==
    /\ lastCode = Undefined
    /\ clip = IdleFrame
    /\ ref = IdleFrame
    /\ walk = [w \in 1..2 |-> IdleWalker]
    /\ walkers = 1
    /\ simp = SimpIdle
    /\ poly = PolyIdle
    /\ box = NewBox
    /\ crs = NewCrs
    /\ ev = NewEvented
    /\ call = NoCall

ClipNext == ClipCall \/ ClipTest \/ ClipBody \/ ClipReturn \/ ClipRelease

ClipSpec == ClipInit /\ [][ClipNext]_vars

\* a running call is not suspended: its next step is taken
FairClipSpec ==
    ClipSpec /\ WF_vars(ClipTest) /\ WF_vars(ClipBody) /\ WF_vars(ClipReturn)

----------------------------------------------------------------------------
(* Callers that clip polylines segment by segment, as LineUtil asks of them: *)
(* in sequence along the polyline, useLastCode = false on the first segment  *)
(* of a polyline and true on every later one.                                *)

WalkPoints == {Pt(i, j) : i \in {-1, 1, MaxCoord}, j \in {-1, 1, MaxCoord}}

WalkBounds == {MkBounds(m, m, MaxCoord - 1, MaxCoord - 1) : m \in 0..1}

\* walker w clips the first segment of a new polyline
WalkStart(w) ==
    /\ w <= walkers
    /\ CanCall
    /\ \E a \in WalkPoints, b \in WalkPoints, bounds \in WalkBounds,
          round \in BOOLEAN :
        /\ DoCall(a, b, bounds, FALSE, round)
        /\ walk' = [walk EXCEPT ![w] =
                        [started |-> TRUE, at |-> b, bounds |-> bounds]]
    /\ UNCHANGED walkers
    /\ UNCHANGED clipOthers

\* walker w clips the next segment of its polyline
WalkNext(w) ==
    /\ w <= walkers
    /\ CanCall
    /\ walk[w].started
    /\ \E b \in WalkPoints, round \in BOOLEAN :
        /\ DoCall(walk[w].at, b, walk[w].bounds, TRUE, round)
        /\ walk' = [walk EXCEPT ![w].at = b]
    /\ UNCHANGED walkers
    /\ UNCHANGED clipOthers

WalkInit ==
    /\ lastCode = Undefined
    /\ clip = IdleFrame
    /\ ref = IdleFrame
    /\ walk = [w \in 1..2 |-> IdleWalker]
    /\ walkers \in 1..2
    /\ simp = SimpIdle
    /\ poly = PolyIdle
    /\ box = NewBox
    /\ crs = NewCrs
    /\ ev = NewEvented
    /\ call = NoCall

WalkStep ==
    \/ \E w \in 1..2 : WalkStart(w)
    \/ \E w \in 1..2 : WalkNext(w)
    \/ ClipTest
    \/ ClipBody
    \/ ClipReturn
    \/ ClipRelease

WalkSpec == WalkInit /\ [][WalkStep]_vars

----------------------------------------------------------------------------
(* simplify: vertex reduction, then Douglas-Peucker.  Sequences are indexed  *)
(* from 1, the arrays of the code from 0.                                    *)

sqDist(p1, p2) ==
    LET dx == NumSub(p2.x, p1.x)
        dy == NumSub(p2.y, p1.y)
    IN  NumAdd(NumMul(dx, dx), NumMul(dy, dy))

\* the projection of p on the line p1-p2, held back at p1 but not at p2
ClosestBeyondEnd(p, p1, p2) ==
    LET dx  == NumSub(p2.x, p1.x)
        dy  == NumSub(p2.y, p1.y)
        dot == NumAdd(NumMul(dx, dx), NumMul(dy, dy))
        t   == NumDiv(NumAdd(NumMul(NumSub(p.x, p1.x), dx),
                             NumMul(NumSub(p.y, p1.y), dy)), dot)
    IN  IF NumGt(dot, Q(0)) /\ NumGt(t, Q(0))
        THEN [x |-> NumAdd(p1.x, NumMul(dx, t)),
              y |-> NumAdd(p1.y, NumMul(dy, t))]
        ELSE [x |-> p1.x, y |-> p1.y]

\* the closest point of the segment p1-p2 to p
ClosestOnSegment(p, p1, p2) ==
    LET dx  == NumSub(p2.x, p1.x)
        dy  == NumSub(p2.y, p1.y)
        dot == NumAdd(NumMul(dx, dx), NumMul(dy, dy))
        t   == NumDiv(NumAdd(NumMul(NumSub(p.x, p1.x), dx),
                             NumMul(NumSub(p.y, p1.y), dy)), dot)
    IN  IF NumGt(dot, Q(0))
        THEN IF NumGt(t, Q(1)) THEN [x |-> p2.x, y |-> p2.y]
             ELSE IF NumGt(t, Q(0))
                  THEN [x |-> NumAdd(p1.x, NumMul(dx, t)),
                        y |-> NumAdd(p1.y, NumMul(dy, t))]
                  ELSE [x |-> p1.x, y |-> p1.y]
        ELSE [x |-> p1.x, y |-> p1.y]

\* with sqDistFlag the squared distance from p to the closest point of the
\* segment, without it that point
sqClosestPointOnSegment(p, p1, p2, sqDistFlag) ==
    Eval2(LAMBDA c, flag : IF flag THEN sqDist(c, p) ELSE NewPoint(c.x, c.y, FALSE),
          ClosestOnSegment(p, p1, p2), sqDistFlag)

\* closestPointOnSegment(p, p1, p2)
closestPointOnSegment(p, p1, p2) == sqClosestPointOnSegment(p, p1, p2, FALSE)

\* Math.sqrt(x), kept as the root of x
SqrtOf(x) == [sqrt |-> x]

\* pointToSegmentDistance(p, p1, p2)
pointToSegmentDistance(p, p1, p2) == SqrtOf(sqClosestPointOnSegment(p, p1, p2, TRUE))

\* the loop of reducePoints from index i on: <<prev, reducedPoints>>
RECURSIVE ReduceLoop(_, _, _, _, _)
ReduceLoop(points, sqTolerance, i, prev, reducedPoints) ==
    IF i > Len(points) THEN <<prev, reducedPoints>>
    ELSE IF NumGt(sqDist(points[i], points[prev]), sqTolerance)
         THEN ReduceLoop(points, sqTolerance, i + 1, i,
                         Append(reducedPoints, points[i]))
         ELSE ReduceLoop(points, sqTolerance, i + 1, prev, reducedPoints)

\* reducePoints without the last point pushed back
reducePointsNoLast(points, sqTolerance) ==
    ReduceLoop(points, sqTolerance, 2, 1, <<points[1]>>)[2]

reducePoints(points, sqTolerance) ==
    LET r == ReduceLoop(points, sqTolerance, 2, 1, <<points[1]>>)
    IN  IF r[1] < Len(points) THEN Append(r[2], points[Len(points)]) ELSE r[2]

\* the scan of simplifyDPStep from index i on: <<index, maxSqDist>>, index 0
\* standing for null
RECURSIVE MaxScan(_, _, _, _, _, _)
MaxScan(points, first, last, i, index, maxSqDist) ==
    IF i > last - 1 THEN <<index, maxSqDist>>
    ELSE Eval2(LAMBDA d, m :
                 IF NumGt(d, m)
                 THEN MaxScan(points, first, last, i + 1, i, d)
                 ELSE MaxScan(points, first, last, i + 1, index, m),
               sqClosestPointOnSegment(points[i], points[first], points[last], TRUE),
               maxSqDist)

RECURSIVE simplifyDPStep(_, _, _, _, _)

\* simplifyDPStep with the comparison to the tolerance the wrong way round
simplifyDPStepBelow(points, markers, sqTolerance, first, last) ==
    LET m == MaxScan(points, first, last, first + 1, 0, Q(0))
    IN  IF m[1] # 0 /\ NumLt(m[2], sqTolerance)
        THEN simplifyDPStep(points,
                 simplifyDPStep(points, [markers EXCEPT ![m[1]] = 1],
                                sqTolerance, first, m[1]),
                 sqTolerance, m[1], last)
        ELSE markers

\* the markers after simplifyDPStep(points, markers, sqTolerance, first, last)
simplifyDPStep(points, markers, sqTolerance, first, last) ==
    LET m == MaxScan(points, first, last, first + 1, 0, Q(0))
    IN  IF m[1] # 0 /\ NumGt(m[2], sqTolerance)
        THEN simplifyDPStep(points,
                 simplifyDPStep(points, [markers EXCEPT ![m[1]] = 1],
                                sqTolerance, first, m[1]),
                 sqTolerance, m[1], last)
        ELSE markers

\* the elements of points whose marker is set, in order
RECURSIVE Marked(_, _, _)
Marked(points, markers, i) ==
    IF i > Len(points) THEN <<>>
    ELSE IF markers[i] # 0
         THEN <<points[i]>> \o Marked(points, markers, i + 1)
         ELSE Marked(points, markers, i + 1)

simplifyDP(points, sqTolerance) ==
    LET len     == Len(points)
        markers == [i \in 1..len |-> IF i = 1 \/ i = len THEN 1 ELSE 0]
    IN  Marked(points,
               simplifyDPStep(points, markers, sqTolerance, 1, len), 1)

simplify(points, tolerance) ==
    IF tolerance = Q(0) \/ Len(points) = 0 THEN points
    ELSE Eval2(LAMBDA sqTolerance, u :
                 simplifyDP(reducePoints(points, sqTolerance), sqTolerance),
               NumMul(tolerance, tolerance), 0)

\* the points and the tolerances simplify is called with
SimplifyPoints == {Pt(i, j) : i \in 0..2, j \in 0..2}

Tolerances == {Q(0), Frac(1, 2), Q(1), Frac(3, 2), Q(2)}

PointSeqs(S, n) == UNION {[1..k -> S] : k \in 0..n}

\* the call simplify(points, tolerance)
Simplify ==
    /\ ~simp.called
    /\ \E points \in PointSeqs(SimplifyPoints, MaxLen), tolerance \in Tolerances :
         simp' = [called |-> TRUE, points |-> points, tolerance |-> tolerance,
                  out |-> simplify(points, tolerance)]
    /\ UNCHANGED simpOthers

\* the caller has taken the result
SimplifyDone ==
    /\ simp.called
    /\ simp' = SimpIdle
    /\ UNCHANGED simpOthers

SimplifyNext == Simplify \/ SimplifyDone

SimplifySpec == ClipInit /\ [][SimplifyNext]_vars

----------------------------------------------------------------------------
(* clipPolygon.  A ring is a sequence of records [p, code]: a point and the  *)
(* _code property the function keeps on it.                                   *)

\* the order in which clipPolygon takes the edges: left, bottom, right, top
edges == <<1, 4, 2, 8>>

\* the ring without the first loop: no point has an outcode, read as 0
WithoutCodes(points, bounds) ==
    [i \in 1..Len(points) |-> [p |-> points[i], code |-> 0]]

\* the first loop: every input point gets its outcode
WithCodes(points, bounds) ==
    [i \in 1..Len(points) |-> [p |-> points[i], code |-> getBitCode(points[i], bounds)]]

\* p = getEdgeIntersection(b, a, edge, bounds, round); p._code = getBitCode(p, bounds)
Crossing(a, b, edge, bounds, round) ==
    Eval2(LAMBDA p, u : [p |-> p, code |-> getBitCode(p, bounds)],
          getEdgeIntersection(b.p, a.p, edge, bounds, round), 0)

\* one pass of the inner loop from index i on, j being the index before i
RECURSIVE PassLoop(_, _, _, _, _, _, _)
PassLoop(inputPoints, edge, bounds, round, i, j, clippedPoints) ==
    IF i > Len(inputPoints) THEN clippedPoints
    ELSE LET a == inputPoints[i]
             b == inputPoints[j]
         IN  PassLoop(inputPoints, edge, bounds, round, i + 1, i,
                 IF ~HasBit(a.code, edge)
                 THEN IF HasBit(b.code, edge)
                      THEN clippedPoints
                             \o <<Crossing(a, b, edge, bounds, round), a>>
                      ELSE Append(clippedPoints, a)
                 ELSE IF ~HasBit(b.code, edge)
                      THEN Append(clippedPoints,
                                  Crossing(a, b, edge, bounds, round))
                      ELSE clippedPoints)

\* a pass that starts at the second point, the first being its predecessor
ClipPassSkipFirst(inputPoints, edge, bounds, round) ==
    PassLoop(inputPoints, edge, bounds, round, 2, 1, <<>>)

\* the pass for one edge: the ring clipped by the edge's half-plane
ClipPass(inputPoints, edge, bounds, round) ==
    PassLoop(inputPoints, edge, bounds, round, 1, Len(inputPoints), <<>>)

\* the ring after the passes k .. 4
RECURSIVE PassesFrom(_, _, _, _)

\* the passes without the last one, for the top edge
PassesButTop(inputPoints, k, bounds, round) ==
    IF k >= Len(edges) THEN inputPoints
    ELSE PassesFrom(ClipPass(inputPoints, edges[k], bounds, round),
                    k + 1, bounds, round)

PassesFrom(inputPoints, k, bounds, round) ==
    IF k > Len(edges) THEN inputPoints
    ELSE PassesFrom(ClipPass(inputPoints, edges[k], bounds, round),
                    k + 1, bounds, round)

clipPolygon(points, bounds, round) ==
    LET ring == PassesFrom(WithCodes(points, bounds), 1, bounds, round)
    IN  [i \in 1..Len(ring) |-> ring[i].p]

\* the rings and the clip windows clipPolygon is called with
PolyCoords == {Q(-1), Frac(1, 2), Q(1), Q(MaxCoord + 1)}

PolyPoints == {NewPoint(x, y, FALSE) : x \in PolyCoords, y \in PolyCoords}

PolyBounds == {MkBounds(m, m, MaxCoord, MaxCoord) : m \in 0..1}

\* the call clipPolygon(points, bounds, round)
ClipPolygon ==
    /\ ~poly.called
    /\ \E points \in PointSeqs(PolyPoints, MaxRing), bounds \in PolyBounds,
          round \in BOOLEAN :
         poly' = [called |-> TRUE, points |-> points, bounds |-> bounds,
                  round |-> round, out |-> clipPolygon(points, bounds, round)]
    /\ UNCHANGED polyOthers

\* the caller has taken the result
ClipPolygonDone ==
    /\ poly.called
    /\ poly' = PolyIdle
    /\ UNCHANGED polyOthers

PolyNext == ClipPolygon \/ ClipPolygonDone

PolySpec == ClipInit /\ [][PolyNext]_vars

----------------------------------------------------------------------------
(* Properties of clipSegment *)

Code(p) == getBitCode(p, clip.bounds)

Returned == clip.pc = "done"

\* p lies on one of the four boundary lines of the clip window
OnBoundaryLine(p, bounds) ==
    \/ p.x = bounds.min.x
    \/ p.x = bounds.max.x
    \/ p.y = bounds.min.y
    \/ p.y = bounds.max.y

NumMin(x, y) == IF NumLt(y, x) THEN y ELSE x

NumMax(x, y) == IF NumGt(y, x) THEN y ELSE x

\* the parameters t of a + t (b - a) at which one coordinate lies in [lo, hi],
\* as an interval <<from, to>> (empty when from > to)
AxisRange(p0, p1, lo, hi) ==
    IF p0 = p1
    THEN IF NumLe(lo, p0) /\ NumLe(p0, hi) THEN <<Q(0), Q(1)>> ELSE <<Q(1), Q(0)>>
    ELSE LET t1 == NumDiv(NumSub(lo, p0), NumSub(p1, p0))
             t2 == NumDiv(NumSub(hi, p0), NumSub(p1, p0))
         IN  <<NumMin(t1, t2), NumMax(t1, t2)>>

\* some point of the segment a-b lies in the clip window
SegmentMeets(a, b, bounds) ==
    LET rx   == AxisRange(a.x, b.x, bounds.min.x, bounds.max.x)
        ry   == AxisRange(a.y, b.y, bounds.min.y, bounds.max.y)
        from == NumMax(Q(0), NumMax(rx[1], ry[1]))
        to   == NumMin(Q(1), NumMin(rx[2], ry[2]))
    IN  NumLe(from, to)

\* C1: a segment with both endpoints inside the clip window (both outcodes 0),
\* clipped with useLastCode = false, is returned as the pair [a, b] with both
\* endpoints unchanged.
InsideSegmentUnchanged ==
    (/\ Returned
     /\ ~clip.useLastCode
     /\ Code(clip.argA) = 0
     /\ Code(clip.argB) = 0)
    => clip.result = <<clip.argA, clip.argB>>

\* C2: with exactly one endpoint outside (useLastCode = false, round = false)
\* the result is a pair: the inside endpoint unchanged, the other one replaced
\* by a point of outcode 0 on a boundary line of the clip window.
OneOutsideClippedToBoundary ==
    (/\ Returned
     /\ ~clip.useLastCode
     /\ ~clip.round
     /\ (Code(clip.argA) = 0) # (Code(clip.argB) = 0))
    => /\ clip.result # False
       /\ IF Code(clip.argA) = 0
          THEN /\ clip.result[1] = clip.argA
               /\ Code(clip.result[2]) = 0
               /\ OnBoundaryLine(clip.result[2], clip.bounds)
          ELSE /\ clip.result[2] = clip.argB
               /\ Code(clip.result[1]) = 0
               /\ OnBoundaryLine(clip.result[1], clip.bounds)

\* C3: every call of clipSegment terminates: a call that has reached the loop
\* test returns after finitely many endpoint replacements.
ClipSegmentTerminates == (clip.pc = "test") ~> Returned

\* C4: a segment with both endpoints beyond the same boundary line
\* (codeA & codeB # 0) gives the normal return value false, and false is
\* returned only when no point of the segment lies in the clip window.
RejectOnlyOutside ==
    (Returned /\ ~clip.useLastCode)
    => /\ BitAnd(Code(clip.argA), Code(clip.argB)) # 0 => clip.result = False
       /\ clip.result = False => ~SegmentMeets(clip.argA, clip.argB, clip.bounds)

\* the activation and the reference activation are at the same point with the
\* same values: the call behaves as the same call with useLastCode = false
SameRun(f, g) == [f EXCEPT !.useLastCode = FALSE, !.firstCode = g.firstCode] = g

\* C5: after a call the cached outcode is getBitCode of the b passed in, and
\* a single caller walking a polyline (useLastCode = false on the first
\* segment, true afterwards) gets from every call what the same call with
\* useLastCode = false gives.
CachedCodeEquivalent ==
    /\ clip.pc # "idle" => lastCode = Code(clip.argB)
    /\ walkers = 1 => SameRun(clip, ref)

\* a later segment of a single walk has been clipped, and the loop body ran
CachedCodeUsed ==
    /\ walkers = 1
    /\ Returned
    /\ clip.useLastCode
    /\ clip.a # clip.argA

\* C6: with a single caller walking one polyline at a time, a call with
\* useLastCode = true never runs with a first outcode other than
\* getBitCode(a, bounds); with two interleaved callers such a call is
\* reachable (StaleCodeInterleaved).
NoStaleCodeSingleWalk ==
    (walkers = 1 /\ clip.pc # "idle" /\ clip.useLastCode)
    => clip.firstCode = Code(clip.argA)

\* two interleaved walks: a call runs on the other walk's cached outcode
StaleCodeInterleaved ==
    /\ walkers = 2
    /\ clip.pc # "idle"
    /\ clip.useLastCode
    /\ clip.firstCode # Code(clip.argA)

----------------------------------------------------------------------------
(* Properties of simplify *)

RECURSIVE IsSubsequence(_, _)
IsSubsequence(s, t) ==
    IF s = <<>> THEN TRUE
    ELSE IF t = <<>> THEN FALSE
    ELSE IF Head(s) = Head(t) THEN IsSubsequence(Tail(s), Tail(t))
    ELSE IsSubsequence(s, Tail(t))

Range(seq) == {seq[i] : i \in 1..Len(seq)}

\* simplify has run on a non-empty sequence with a tolerance above 0
Simplified ==
    /\ simp.called
    /\ Len(simp.points) > 0
    /\ NumGt(simp.tolerance, Q(0))

\* p lies within squared distance sq of the polyline: of one of its segments
\* (of its only point when it has no segment)
WithinOfPolyline(p, line, sq) ==
    \/ Len(line) = 1 /\ NumLe(sqDist(p, line[1]), sq)
    \/ \E k \in 1..(Len(line) - 1) :
         NumLe(sqClosestPointOnSegment(p, line[k], line[k + 1], TRUE), sq)

\* the points that the call dropped
Dropped == Range(simp.points) \ Range(simp.out)

\* the square of the tolerance of the call
SqTol == NumMul(simp.tolerance, simp.tolerance)

\* C7: for a non-empty input and t > 0 the output is a subsequence of the
\* input, in order, no longer than the input, with the input's first point
\* first and the input's last point last.
SimplifyKeepsEnds ==
    Simplified
    => /\ IsSubsequence(simp.out, simp.points)
       /\ Len(simp.out) <= Len(simp.points)
       /\ Len(simp.out) > 0
       /\ simp.out[1] = simp.points[1]
       /\ simp.out[Len(simp.out)] = simp.points[Len(simp.points)]

\* a call that dropped points and kept some inner ones
SimplifyDroppedSome ==
    /\ Simplified
    /\ Len(simp.out) < Len(simp.points)
    /\ Len(simp.out) > 2

\* C8 as stated: every dropped point lies within t of the output polyline.
DroppedWithinTolerance ==
    Simplified => \A p \in Dropped : WithinOfPolyline(p, simp.out, SqTol)

\* C8 as amended: every dropped point lies within 2 t of the output polyline,
\* and every point that vertex reduction kept and Douglas-Peucker dropped lies
\* within t of it.
DroppedWithinTwiceTolerance ==
    Simplified
    => /\ \A p \in Dropped :
            WithinOfPolyline(p, simp.out, NumMul(Q(4), SqTol))
       /\ \A p \in Range(reducePoints(simp.points, SqTol)) :
            WithinOfPolyline(p, simp.out, SqTol)

\* a dropped point farther than t from the output polyline
DroppedBeyondTolerance ==
    /\ Simplified
    /\ \E p \in Dropped : ~WithinOfPolyline(p, simp.out, SqTol)

----------------------------------------------------------------------------
(* Properties of clipPolygon *)

\* p lies strictly inside the clip window
StrictlyInside(p, bounds) ==
    /\ NumGt(p.x, bounds.min.x)
    /\ NumLt(p.x, bounds.max.x)
    /\ NumGt(p.y, bounds.min.y)
    /\ NumLt(p.y, bounds.max.y)

\* C9: when the clip window strictly contains every input point, clipPolygon
\* with round = false returns the input points, in the same order.
InsideRingUnchanged ==
    (/\ poly.called
     /\ ~poly.round
     /\ \A i \in 1..Len(poly.points) : StrictlyInside(poly.points[i], poly.bounds))
    => poly.out = poly.points

\* a ring of distinct points strictly inside the clip window has been clipped
InsideRingClipped ==
    /\ poly.called
    /\ ~poly.round
    /\ Len(poly.points) = MaxRing
    /\ Cardinality(Range(poly.points)) = MaxRing
    /\ \A i \in 1..Len(poly.points) : StrictlyInside(poly.points[i], poly.bounds)
    /\ poly.out = poly.points

\* C30: for every input ring and every valid bounds, every point returned by
\* clipPolygon(points, bounds, round = false) lies inside or on the boundary
\* of bounds (its outcode is 0) after the four passes left, bottom, right,
\* top, and is either an input point or a point on a boundary line of bounds.
ClippedRingInside ==
    (poly.called /\ ~poly.round)
    => \A i \in 1..Len(poly.out) :
          /\ getBitCode(poly.out[i], poly.bounds) = 0
          /\ Contains(poly.bounds, poly.out[i])
          /\ \/ poly.out[i] \in Range(poly.points)
             \/ OnBoundaryLine(poly.out[i], poly.bounds)

\* a ring with a point above the clip window and a point left of it has been
\* clipped to input points and crossings
RingClippedToCrossings ==
    /\ poly.called
    /\ ~poly.round
    /\ \E i \in 1..Len(poly.points) : HasBit(getBitCode(poly.points[i], poly.bounds), 8)
    /\ \E i \in 1..Len(poly.points) : HasBit(getBitCode(poly.points[i], poly.bounds), 1)
    /\ \E i \in 1..Len(poly.out) : poly.out[i] \in Range(poly.points)
    /\ \E i \in 1..Len(poly.out) : poly.out[i] \notin Range(poly.points)

\* all points of the ring lie beyond one and the same boundary line
BeyondOneLine(points, bounds) ==
    \E bit \in {1, 2, 4, 8} :
        \A i \in 1..Len(points) : HasBit(getBitCode(points[i], bounds), bit)

\* C10 as stated: a ring whose points all lie beyond one and the same
\* boundary line, and the empty ring, are clipped to the empty sequence.
OutsideRingEmpty ==
    (poly.called /\ BeyondOneLine(poly.points, poly.bounds))
    => poly.out = <<>>

\* C10 as amended: with round = false a ring whose points all lie beyond one
\* and the same boundary line is clipped to the empty sequence; the empty
\* ring is clipped to the empty sequence whatever round is.
OutsideRingEmptyUnrounded ==
    /\ (poly.called /\ ~poly.round /\ BeyondOneLine(poly.points, poly.bounds))
       => poly.out = <<>>
    /\ (poly.called /\ poly.points = <<>>) => poly.out = <<>>

\* a ring beyond one line, with points on both sides of another line, has
\* been clipped away
OutsideRingClipped ==
    /\ poly.called
    /\ ~poly.round
    /\ Len(poly.points) = MaxRing
    /\ BeyondOneLine(poly.points, poly.bounds)
    /\ \E i, j \in 1..Len(poly.points) :
         /\ HasBit(getBitCode(poly.points[i], poly.bounds), 1)
         /\ ~HasBit(getBitCode(poly.points[j], poly.bounds), 1)
    /\ poly.out = <<>>

----------------------------------------------------------------------------
(* Bounds.extend *)

\* everything but the Bounds object
boxOthers == <<clipVars, simp, poly, call, crs, ev>>

\* the coordinates and the shapes of the points a Bounds is extended with
BoxCoords == {Q(-1), Frac(1, 2), Q(2)}

PointShapes == {"Point", "array", "object"}

\* the point (x, y) as a Point, as [x, y] and as {x: x, y: y}
PointLike(shape, x, y) ==
    CASE shape = "Point" -> JsPt(x, y)
      [] shape = "array" -> JsArr(<<JsNum(x), JsNum(y)>>)
      [] shape = "object" -> JsObj([x |-> JsNum(x), y |-> JsNum(y)])

\* the call box.extend(point)
BoundsExtend ==
    /\ box.n < MaxExtends
    /\ \E shape \in PointShapes, x \in BoxCoords, y \in BoxCoords :
         LET point == PointLike(shape, x, y)
         IN  /\ extend(box.b, point).t = "Bounds"
             /\ box' = [b |-> extend(box.b, point),
                        prev |-> box.b,
                        seen |-> box.seen \cup {toPoint(point, JsInt(0), FALSE)},
                        n |-> box.n + 1]
    /\ UNCHANGED boxOthers

\* the caller drops the object and constructs a new one: new Bounds()
BoundsNew ==
    /\ box.n > 0
    /\ box' = NewBox
    /\ UNCHANGED boxOthers

BoundsNext == BoundsExtend \/ BoundsNew

BoundsSpec == ClipInit /\ [][BoundsNext]_vars

----------------------------------------------------------------------------
(* Properties of Bounds.extend *)

\* the call returned true
IsTrue(r) == r.t = "boolean" /\ r.v

\* the call returned false
IsFalse(r) == r.t = "boolean" /\ ~r.v

\* the Bounds has a min and a max
IsValid(b) == b.v.min.t = "Point" /\ b.v.max.t = "Point"

\* C11: an extend call leaves min.x, min.y no greater and max.x, max.y no
\* smaller than before; once extended, min.x <= max.x and min.y <= max.y; the
\* bounds contains every point it has been extended with.
ExtendMonotonic ==
    /\ (box.n >= 2)
       => /\ JsLe(box.b.v.min.v.x, box.prev.v.min.v.x)
          /\ JsLe(box.b.v.min.v.y, box.prev.v.min.v.y)
          /\ JsGe(box.b.v.max.v.x, box.prev.v.max.v.x)
          /\ JsGe(box.b.v.max.v.y, box.prev.v.max.v.y)
    /\ (box.n >= 1)
       => /\ IsValid(box.b)
          /\ JsLe(box.b.v.min.v.x, box.b.v.max.v.x)
          /\ JsLe(box.b.v.min.v.y, box.b.v.max.v.y)
          /\ \A p \in box.seen : IsTrue(contains(box.b, p))

\* a Bounds that the last of several extend calls has grown on both sides
ExtendGrew ==
    /\ box.n = MaxExtends
    /\ JsLt(box.b.v.min.v.x, box.prev.v.min.v.x)
    /\ JsGt(box.b.v.max.v.y, box.prev.v.max.v.y)
    /\ Cardinality(box.seen) = MaxExtends

----------------------------------------------------------------------------
(* Bounds.intersects and Bounds.overlaps *)

\* everything but the record of the last call
callOthers == <<clipVars, simp, poly, box, crs, ev>>

\* the caller has taken the result of the call
CallDone ==
    /\ call.op # "none"
    /\ call' = NoCall
    /\ UNCHANGED callOthers

\* the corners of the two Bounds that are compared
CornerPoints == {JsPt(x, y) : x \in BoxCoords, y \in BoxCoords}

\* A = toBounds(a1, a2), B = toBounds(b1, b2), A.intersects(B), A.overlaps(B)
BoundsCompare ==
    /\ call.op = "none"
    /\ \E a1 \in CornerPoints, a2 \in CornerPoints,
          b1 \in CornerPoints, b2 \in CornerPoints :
         LET A == toBounds(a1, a2)
             B == toBounds(b1, b2)
         IN  call' = [op |-> "compare", args |-> <<A, B>>,
                      out |-> <<intersects(A, B), overlaps(A, B)>>]
    /\ UNCHANGED callOthers

CompareNext == BoundsCompare \/ CallDone

CompareSpec == ClipInit /\ [][CompareNext]_vars

----------------------------------------------------------------------------
(* Properties of Bounds.intersects and Bounds.overlaps *)

\* the point q lies in both closed rectangles
InBoth(A, B, q) == IsTrue(contains(A, q)) /\ IsTrue(contains(B, q))

\* the closed rectangles have a point in common: when they have one, the
\* corner of their intersection is one, and its coordinates are coordinates
\* of their corners
SharePoint(A, B) == \E q \in CornerPoints : InBoth(A, B, q)

\* the intersection of the rectangles has a positive area: it has two points
\* that differ in both coordinates
ShareArea(A, B) ==
    \E q1 \in CornerPoints, q2 \in CornerPoints :
        /\ InBoth(A, B, q1)
        /\ InBoth(A, B, q2)
        /\ JsLt(q1.v.x, q2.v.x)
        /\ JsLt(q1.v.y, q2.v.y)

\* C12: A.intersects(B) is true iff the closed rectangles have a point in
\* common, and A.overlaps(B) is true iff their intersection has a positive
\* area, for all valid A and B, those of zero area included.
IntersectsOverlapsExact ==
    (call.op = "compare")
    => /\ IsTrue(call.out[1]) <=> SharePoint(call.args[1], call.args[2])
       /\ IsFalse(call.out[1]) <=> ~SharePoint(call.args[1], call.args[2])
       /\ IsTrue(call.out[2]) <=> ShareArea(call.args[1], call.args[2])
       /\ IsFalse(call.out[2]) <=> ~ShareArea(call.args[1], call.args[2])

----------------------------------------------------------------------------
(* The LatLng constructor *)

\* what a caller passes for lat and for lng: finite numbers, the numbers
\* that are not finite, and no value
CoordValues ==
    <<JsInt(-200), JsInt(-91), JsInt(0), JsNum(Frac(1, 2)), JsInt(90),
      JsInt(181), JsNum(NaN), JsNum(Inf(1)), JsNum(Inf(-1)), JsUndefined>>

\* what a caller passes for alt
AltValues == <<JsUndefined, JsInt(100)>>

\* the call new LatLng(lat, lng, alt)
LatLngConstruct ==
    /\ call.op = "none"
    /\ \E i \in DOMAIN CoordValues, j \in DOMAIN CoordValues, k \in DOMAIN AltValues :
         call' = [op |-> "LatLng",
                  args |-> <<CoordValues[i], CoordValues[j], AltValues[k]>>,
                  out |-> NewLatLng(CoordValues[i], CoordValues[j], AltValues[k])]
    /\ UNCHANGED callOthers

LatLngNext == LatLngConstruct \/ CallDone

LatLngSpec == ClipInit /\ [][LatLngNext]_vars

----------------------------------------------------------------------------
(* Properties of the LatLng constructor *)

\* x is a finite number
IsFiniteNumber(x) == x.t = "number" /\ IsFinite(x.v)

\* C13: constructing a LatLng fails whenever lat or lng is not a finite
\* number, no LatLng with a lat or lng that is not finite is produced, and for
\* finite lat and lng the construction succeeds and stores them as given.
LatLngFiniteOrError ==
    (call.op = "LatLng")
    => /\ (~IsFiniteNumber(call.args[1]) \/ ~IsFiniteNumber(call.args[2]))
          => call.out.t = "throw"
       /\ (call.out.t = "LatLng")
          => /\ IsFiniteNumber(call.out.v.lat)
             /\ IsFiniteNumber(call.out.v.lng)
       /\ (IsFiniteNumber(call.args[1]) /\ IsFiniteNumber(call.args[2]))
          => /\ call.out.t = "LatLng"
             /\ call.out.v.lat.v = call.args[1].v
             /\ call.out.v.lng.v = call.args[2].v

----------------------------------------------------------------------------
(* The coercions toPoint, toLatLng and toBounds *)

\* the numbers the loose inputs are made of
LooseCoords == <<<<Q(0), Q(0)>>, <<Q(1), Q(2)>>, <<Q(-1), Frac(1, 2)>>>>

\* the loose inputs made of the numbers x and y: the canonical objects, the
\* literals the coercions document, and literals that miss a key or have the
\* wrong length
LooseShapes(x, y) ==
    <<JsPt(x, y),
      NewLatLng(JsNum(x), JsNum(y), JsUndefined),
      NewBounds(JsPt(x, y), JsPt(y, x)),
      JsArr(<<JsNum(x), JsNum(y)>>),
      JsArr(<<JsNum(x), JsNum(y), JsNum(x)>>),
      JsArr(<<JsPt(x, y), JsPt(y, x)>>),
      JsObj([x |-> JsNum(x), y |-> JsNum(y)]),
      JsObj([lat |-> JsNum(x), lng |-> JsNum(y)]),
      JsObj([lat |-> JsNum(x), lon |-> JsNum(y)]),
      JsObj([x |-> JsNum(x)]),
      JsObj([lat |-> JsNum(x)]),
      JsArr(<<JsNum(x)>>),
      JsArr(<<JsNum(x), JsNum(y), JsNum(x), JsNum(y)>>)>>

\* the loose inputs that hold no number
LooseOthers ==
    <<JsUndefined, JsNull, JsStr("abc"), JsStr(""), JsBool(TRUE), JsBool(FALSE),
      JsObj(<<>>), JsArr(<<>>)>>

LooseInputs ==
    LooseShapes(LooseCoords[1][1], LooseCoords[1][2])
      \o LooseShapes(LooseCoords[2][1], LooseCoords[2][2])
      \o LooseShapes(LooseCoords[3][1], LooseCoords[3][2])
      \o LooseOthers

\* the call toPoint(x), toLatLng(x) or toBounds(x)
Coerce ==
    /\ call.op = "none"
    /\ \E fn \in {"toPoint", "toLatLng", "toBounds"}, i \in DOMAIN LooseInputs :
         LET x == LooseInputs[i]
         IN  call' = [op |-> fn, args |-> <<x>>,
                      out |-> CASE fn = "toPoint" -> toPoint(x, JsInt(0), FALSE)
                                [] fn = "toLatLng" -> toLatLng(x, JsUndefined, JsUndefined)
                                [] fn = "toBounds" -> toBounds(x, JsUndefined)]
    /\ UNCHANGED callOthers

CoerceNext == Coerce \/ CallDone

CoerceSpec == ClipInit /\ [][CoerceNext]_vars

----------------------------------------------------------------------------
(* Properties of the coercions *)

\* x is the array of n numbers
IsNumberArray(x, n) ==
    x.t = "array" /\ Len(x.v) = n /\ \A i \in 1..n : x.v[i].t = "number"

\* x is a plain object with the keys k1 and k2
HasKeys(x, k1, k2) == x.t = "object" /\ JsHas(x, k1) /\ JsHas(x, k2)

\* the type of the canonical object of the coercion fn
Canonical(fn) ==
    CASE fn = "toPoint" -> "Point"
      [] fn = "toLatLng" -> "LatLng"
      [] fn = "toBounds" -> "Bounds"

\* the literals [x, y] and {x: x, y: y}
IsPointLiteral(x) == IsNumberArray(x, 2) \/ HasKeys(x, "x", "y")

\* the literal shapes the coercion fn documents
Recognised(fn, x) ==
    CASE fn = "toPoint" -> IsPointLiteral(x)
      [] fn = "toLatLng" ->
           \/ IsNumberArray(x, 2)
           \/ IsNumberArray(x, 3)
           \/ HasKeys(x, "lat", "lng")
           \/ HasKeys(x, "lat", "lon")
      [] fn = "toBounds" ->
           /\ x.t = "array"
           /\ Len(x.v) > 0
           /\ \A i \in 1..Len(x.v) :
                x.v[i].t = "Point" \/ IsPointLiteral(x.v[i])

\* C14: a coercion returns an already canonical input unchanged, builds a
\* canonical object for the shapes it recognises, and for every other input
\* (undefined and null included) returns null or undefined without throwing
\* and without building an object.
CoercionAbsentForUnrecognised ==
    (call.op \in {"toPoint", "toLatLng", "toBounds"})
    => LET x == call.args[1]
       IN  IF x.t = Canonical(call.op)
           THEN call.out.t = x.t /\ call.out.v = x.v
           ELSE IF Recognised(call.op, x)
           THEN call.out.t = Canonical(call.op)
           ELSE call.out.t \in {"null", "undefined"}

----------------------------------------------------------------------------
(* wrapNum *)

\* the numbers that are wrapped: inside, on the ends of, and several widths
\* below and above the ranges
WrapNumbers ==
    {Q(i) : i \in {-541, -540, -360, -190, -181, -180, -179, -91, -90, -1, 0, 1,
                   89, 90, 91, 179, 180, 181, 190, 360, 540, 541}}
      \cup {Frac(-361, 2), Frac(-1, 2), Frac(1, 3), Frac(7, 2), Frac(361, 2)}

\* the ranges [min, max], min < max
WrapRanges ==
    {<<Q(-180), Q(180)>>, <<Q(-90), Q(90)>>, <<Q(0), Q(1)>>,
     <<Frac(-1, 2), Frac(7, 2)>>}

\* the call wrapNum(x, range, includeMax)
WrapNum ==
    /\ call.op = "none"
    /\ \E x \in WrapNumbers, range \in WrapRanges, includeMax \in BOOLEAN :
         call' = [op |-> "wrapNum", args |-> <<x, range, includeMax>>,
                  out |-> wrapNum(x, range, includeMax)]
    /\ UNCHANGED callOthers

WrapNext == WrapNum \/ CallDone

WrapSpec == ClipInit /\ [][WrapNext]_vars

----------------------------------------------------------------------------
(* Properties of wrapNum *)

\* x is an integer
IsInteger(x) == IsFinite(x) /\ x.d = 1

\* C15: wrapNum returns x when x = max and includeMax is set, and otherwise
\* an r with min <= r < max and r - x an integer multiple of max - min;
\* wrapNum(190, [-180, 180], true) = -170; wrapNum of the result is the
\* result.
WrapNumInRange ==
    (call.op = "wrapNum")
    => LET x == call.args[1]
           min == call.args[2][1]
           max == call.args[2][2]
           includeMax == call.args[3]
           r == call.out
       IN  /\ IF x = max /\ includeMax THEN r = x
              ELSE /\ NumLe(min, r)
                   /\ NumLt(r, max)
                   /\ IsInteger(NumDiv(NumSub(r, x), NumSub(max, min)))
           /\ (x = Q(190) /\ min = Q(-180) /\ max = Q(180) /\ includeMax)
              => r = Q(-170)
           /\ wrapNum(r, call.args[2], includeMax) = r

\* a number below the range has been wrapped by more than one width
WrappedFromBelow ==
    /\ call.op = "wrapNum"
    /\ NumLt(call.args[1], NumSub(call.args[2][1],
                                  NumSub(call.args[2][2], call.args[2][1])))
    /\ ~IsInteger(call.args[1])
    /\ call.out # call.args[1]

----------------------------------------------------------------------------
(* CRS.wrapLatLngBounds *)

\* the south, the west, the height and the width of the bounds that are
\* wrapped: centres inside, on the ends of, and outside [-180, 180]
WrapSouths == {Q(-10), Q(50)}

WrapWests ==
    {Q(i) : i \in {-900, -540, -370, -190, -180, -170, 0, 160, 170, 180, 190, 350,
                   530, 720}}
      \cup {Frac(-361, 2), Frac(359, 2)}

WrapHeights == {Q(0), Q(20)}

WrapWidths == {Q(0), Q(1), Q(20), Q(360)}

\* the call EPSG4326.wrapLatLngBounds(b)
WrapBounds ==
    /\ call.op = "none"
    /\ \E south \in WrapSouths, west \in WrapWests,
          height \in WrapHeights, width \in WrapWidths :
         LET b == NewLatLngBounds(
                      NewLatLng(JsNum(south), JsNum(west), JsUndefined),
                      NewLatLng(JsNum(NumAdd(south, height)),
                                JsNum(NumAdd(west, width)), JsUndefined))
         IN  call' = [op |-> "wrapLatLngBounds", args |-> <<b>>,
                      out |-> wrapLatLngBounds(EPSG4326, b)]
    /\ UNCHANGED callOthers

WrapBoundsNext == WrapBounds \/ CallDone

WrapBoundsSpec == ClipInit /\ [][WrapBoundsNext]_vars

----------------------------------------------------------------------------
(* Properties of CRS.wrapLatLngBounds *)

\* the numbers of a LatLngBounds
South(b) == ToNumber(b.v.southWest.v.lat)

West(b) == ToNumber(b.v.southWest.v.lng)

North(b) == ToNumber(b.v.northEast.v.lat)

East(b) == ToNumber(b.v.northEast.v.lng)

\* q lies in [lo, hi]
Within(q, lo, hi) == NumLe(lo, q) /\ NumLe(q, hi)

----------------------------------------------------------------------------
(* Transformation *)

\* the coefficients a and c, b and d, the scales and the points
ScaleCoefficients == {Q(0), Q(-2), Frac(-1, 180), Frac(1, 2), Q(3)}

ShiftCoefficients == {Q(0), Frac(1, 2), Q(-7)}

Scales == {Q(0), Q(-1), Frac(1, 4), Q(1), Q(256)}

TransformPoints == {JsPt(Q(0), Q(0)), JsPt(Q(-1), Frac(1, 3)), JsPt(Q(5), Frac(-7, 2))}

\* t = new Transformation(a, b, c, d), and on the point p:
\* t.transform(p, scale) and t.untransform of its result,
\* t.untransform(p, scale) and t.transform of its result,
\* t._transform(p.clone(), scale)
Transform ==
    /\ call.op = "none"
    /\ \E a \in ScaleCoefficients, b \in ShiftCoefficients,
          c \in ScaleCoefficients, d \in ShiftCoefficients,
          s \in Scales, p \in TransformPoints :
         LET t == NewTransformation(a, b, c, d)
             there == transform(t, p, s)
             back == untransform(t, p, s)
         IN  call' = [op |-> "transform", args |-> <<t, p, s>>,
                      out |-> [there |-> there.val,
                               thereBack |-> untransform(t, there.val, s),
                               back |-> back,
                               backThere |-> transform(t, back, s).val,
                               inPlace |-> _transform(t, clone(p), s).val,
                               p |-> there.point]]
    /\ UNCHANGED callOthers

TransformNext == Transform \/ CallDone

TransformSpec == ClipInit /\ [][TransformNext]_vars

----------------------------------------------------------------------------
(* Properties of Transformation *)

\* C17: for a # 0, c # 0 and scale # 0, untransform undoes transform and
\* transform undoes untransform, and _transform on a copy of p gives the
\* coordinates that transform(p, scale) gives (which leaves p as it was).
TransformInverse ==
    (/\ call.op = "transform"
     /\ call.args[1].a # Q(0)
     /\ call.args[1].c # Q(0)
     /\ call.args[3] # Q(0))
    => /\ call.out.thereBack = call.args[2]
       /\ call.out.backThere = call.args[2]
       /\ call.out.inPlace = call.out.there
       /\ call.out.p = call.args[2]

\* a point has gone through a transformation that scales, mirrors and shifts
TransformedThereAndBack ==
    /\ call.op = "transform"
    /\ NumLt(call.args[1].a, Q(0))
    /\ call.args[1].c # Q(0)
    /\ call.args[1].b # Q(0)
    /\ call.args[3] = Q(256)
    /\ call.out.there # call.args[2]
    /\ call.out.thereBack = call.args[2]

----------------------------------------------------------------------------
(* LatLngBounds.pad *)

\* the south, the west, the height and the width of the bounds that are
\* padded, and the ratios
PadSouths == {Q(-10), Q(50)}

PadWests == {Q(-170), Q(0), Frac(359, 2)}

PadHeights == {Q(0), Q(1), Q(20)}

PadWidths == {Q(0), Q(3), Q(40)}

PadRatios == {Q(-2), Q(-1), Frac(-3, 4), Frac(-1, 2), Frac(-1, 4), Q(0), Frac(1, 2), Q(1)}

\* the call b.pad(ratio)
Pad ==
    /\ call.op = "none"
    /\ \E south \in PadSouths, west \in PadWests, height \in PadHeights,
          width \in PadWidths, ratio \in PadRatios :
         LET b == NewLatLngBounds(
                      NewLatLng(JsNum(south), JsNum(west), JsUndefined),
                      NewLatLng(JsNum(NumAdd(south, height)),
                                JsNum(NumAdd(west, width)), JsUndefined))
         IN  call' = [op |-> "pad", args |-> <<b, ratio>>, out |-> pad(b, ratio)]
    /\ UNCHANGED callOthers

PadNext == Pad \/ CallDone

PadSpec == ClipInit /\ [][PadNext]_vars

----------------------------------------------------------------------------
(* Properties of LatLngBounds.pad *)

\* C18: pad(r) leaves the receiver as it was and returns a bounds with the
\* same centre whose latitude and longitude extents are (1 + 2 r) times the
\* original ones; for r < 0 the result is no larger than the original in
\* both dimensions and lies inside it.
PadScalesExtent ==
    (call.op = "pad")
    => LET b == call.args[1]
           r == call.args[2]
           p == call.out.val
           factor == NumAdd(Q(1), NumMul(Q(2), r))
       IN  /\ call.out.this = b
           /\ p.t = "LatLngBounds"
           /\ getCenter(p) = getCenter(b)
           /\ NumSub(North(p), South(p)) = NumMul(factor, NumSub(North(b), South(b)))
           /\ NumSub(East(p), West(p)) = NumMul(factor, NumSub(East(b), West(b)))
           /\ NumLt(r, Q(0))
              => /\ NumLe(NumSub(North(p), South(p)), NumSub(North(b), South(b)))
                 /\ NumLe(NumSub(East(p), West(p)), NumSub(East(b), West(b)))
                 /\ NumLe(South(b), South(p))
                 /\ NumLe(North(p), North(b))
                 /\ NumLe(West(b), West(p))
                 /\ NumLe(East(p), East(b))

----------------------------------------------------------------------------
(* The CRS singletons *)

\* the variables that the methods of a CRS leave alone
crsOthers == <<clipVars, simp, poly, box, ev>>

CrsNames == {"EPSG4326", "Simple"}

\* the arguments: coordinates inside and outside the wrap range, points,
\* integer zooms, and coordinates at integer distances from each other
CrsLatLngs ==
    {NewLatLng(JsNum(lat), JsNum(lng), JsUndefined) :
        <<lat, lng>> \in {<<Q(0), Q(0)>>, <<Q(3), Q(4)>>, <<Frac(-91, 2), Q(190)>>,
                         <<Q(60), Q(-541)>>}}

CrsDistanceLatLngs ==
    {NewLatLng(JsNum(lat), JsNum(lng), JsUndefined) :
        <<lat, lng>> \in {<<Q(0), Q(0)>>, <<Q(3), Q(4)>>, <<Q(3), Q(0)>>}}

CrsPoints == {JsPt(Q(0), Q(0)), JsPt(Q(128), Q(64)), JsPt(Q(-1), Frac(1, 2))}

CrsZooms == {Q(-1), Q(0), Q(2)}

\* the call has returned out: the caller holds the result, and the singletons
\* are what the call has left of them
CrsReturn(op, name, args, out) ==
    /\ call' = [op |-> op, args |-> [crs |-> name, in |-> args], out |-> out]
    /\ crs' = [objs |-> out.objs, calls |-> crs.calls + 1]
    /\ UNCHANGED crsOthers

\* a singleton can be called
CrsIdle == call.op = "none" /\ crs.calls < MaxCalls

LatLngToPoint ==
    /\ CrsIdle
    /\ \E name \in CrsNames, latlng \in CrsLatLngs, z \in CrsZooms :
         CrsReturn("CRS.latLngToPoint", name, <<latlng, z>>,
                   latLngToPoint(crs.objs, name, latlng, z))

PointToLatLng ==
    /\ CrsIdle
    /\ \E name \in CrsNames, point \in CrsPoints, z \in CrsZooms :
         CrsReturn("CRS.pointToLatLng", name, <<point, z>>,
                   pointToLatLng(crs.objs, name, point, z))

Project ==
    /\ CrsIdle
    /\ \E name \in CrsNames, latlng \in CrsLatLngs :
         CrsReturn("CRS.project", name, <<latlng>>, project(crs.objs, name, latlng))

Unproject ==
    /\ CrsIdle
    /\ \E name \in CrsNames, point \in CrsPoints :
         CrsReturn("CRS.unproject", name, <<point>>, unproject(crs.objs, name, point))

GetProjectedBounds ==
    /\ CrsIdle
    /\ \E name \in CrsNames, z \in CrsZooms :
         CrsReturn("CRS.getProjectedBounds", name, <<z>>,
                   getProjectedBounds(crs.objs, name, z))

\* wrapLatLng and wrapLatLngBounds have no statement that assigns to this or
\* to the argument
WrapLatLng ==
    /\ CrsIdle
    /\ \E name \in CrsNames, latlng \in CrsLatLngs :
         CrsReturn("CRS.wrapLatLng", name, <<latlng>>,
                   [val |-> wrapLatLng(crs.objs[name], latlng),
                    objs |-> crs.objs, args |-> <<latlng>>])

WrapLatLngBounds ==
    /\ CrsIdle
    /\ \E name \in CrsNames, corner1 \in CrsLatLngs, corner2 \in CrsLatLngs :
         LET bounds == NewLatLngBounds(corner1, corner2)
             wrapped == wrapLatLngBounds(crs.objs[name], bounds)
         IN  CrsReturn("CRS.wrapLatLngBounds", name, <<bounds>>,
                       [val |-> wrapped.val, objs |-> crs.objs,
                        args |-> <<wrapped.bounds>>])

Scale ==
    /\ CrsIdle
    /\ \E name \in CrsNames, z \in CrsZooms :
         CrsReturn("CRS.scale", name, <<z>>, scale(crs.objs, name, z))

Zoom ==
    /\ CrsIdle
    /\ \E name \in CrsNames, z \in CrsZooms :
         LET s == scale(crs.objs, name, z).val
         IN  CrsReturn("CRS.zoom", name, <<s>>, zoom(crs.objs, name, s))

Distance ==
    /\ CrsIdle
    /\ \E name \in CrsNames, latlng1 \in CrsDistanceLatLngs,
          latlng2 \in CrsDistanceLatLngs :
         CrsReturn("CRS.distance", name, <<latlng1, latlng2>>,
                   distance(crs.objs, name, latlng1, latlng2))

CrsNext ==
    \/ LatLngToPoint
    \/ PointToLatLng
    \/ Project
    \/ Unproject
    \/ GetProjectedBounds
    \/ WrapLatLng
    \/ WrapLatLngBounds
    \/ Scale
    \/ Zoom
    \/ Distance
    \/ CallDone

CrsSpec == ClipInit /\ [][CrsNext]_vars

----------------------------------------------------------------------------
(* Properties of the CRS singletons *)

CrsOps ==
    {"CRS.latLngToPoint", "CRS.pointToLatLng", "CRS.project", "CRS.unproject",
     "CRS.getProjectedBounds", "CRS.wrapLatLng", "CRS.wrapLatLngBounds",
     "CRS.scale", "CRS.zoom", "CRS.distance"}

\* the singleton now has the fields it was constructed with
AsConstructed(now, constructed) ==
    /\ now.code = constructed.code
    /\ now.projection = constructed.projection
    /\ now.transformation = constructed.transformation
    /\ now.wrapLng = constructed.wrapLng
    /\ now.wrapLat = constructed.wrapLat
    /\ now.infinite = constructed.infinite

\* C19: after any sequence of calls of latLngToPoint, pointToLatLng, project,
\* unproject, getProjectedBounds, wrapLatLng, wrapLatLngBounds, scale, zoom
\* and distance on a CRS singleton, its code, projection, transformation
\* coefficients, wrap ranges and infinite flag and the min and max of the
\* bounds of its projection are what they were after construction, and the
\* arguments of the call are after the call what they were before it.
CrsFrame ==
    /\ \A name \in CrsNames : AsConstructed(crs.objs[name], Singletons[name])
    /\ crs.objs.LonLat.bounds.v.min = LonLat.bounds.v.min
    /\ crs.objs.LonLat.bounds.v.max = LonLat.bounds.v.max
    /\ (call.op \in CrsOps) => call.out.args = call.args.in

\* several calls have been made, and the last one, latLngToPoint on EPSG4326,
\* has moved the point that project created
CrsCalledInPlace ==
    /\ crs.calls = MaxCalls
    /\ call.op = "CRS.latLngToPoint"
    /\ call.args.crs = "EPSG4326"
    /\ call.out.val.v.x # LonLatProject(call.args.in[1]).v.x

----------------------------------------------------------------------------
(* Mercator.unproject *)

\* the equatorial radius
R == 6378137

\* the loop runs while i < 15
MaxIterations == 15

\* and while Math.abs(dphi) > 1e-7
Tolerance == Frac(1, 10000000)

\* d = 180 / Math.PI, to the integer
RadiansToDegrees == Q(57)

\* The exponential, the sine, the power and the arc tangent are not
\* evaluated: the first estimate of phi is any number of Estimates, and the
\* dphi that an iteration computes is any number of Deltas (above the
\* tolerance, just above it, on it, below it, of both signs).
Estimates == {Q(0), Q(1)}

Deltas ==
    {Frac(1, 10), Frac(-1, 10), Frac(2, 10000000),
     Frac(1, 10000000), Frac(-1, 10000000), Q(0)}

MercatorPoints == {JsPt(Q(0), Q(0)), JsPt(Q(R), Q(-R))}

\* a loop condition that lets i reach the budget
RefiningOneMore(i, dphi) == i <= MaxIterations /\ NumGt(MathAbs(dphi), Tolerance)

\* the condition of the for loop
Refining(i, dphi) == i < MaxIterations /\ NumGt(MathAbs(dphi), Tolerance)

\* the call enters the loop: i = 0, dphi = 0.1
UnprojectEnter ==
    /\ call.op = "none"
    /\ \E point \in MercatorPoints, phi \in Estimates :
         call' = [op |-> "Mercator.unproject", args |-> <<point>>, out |-> JsUndefined,
                  pc |-> "for", i |-> 0, dphi |-> Frac(1, 10), phi |-> phi]
    /\ UNCHANGED callOthers

\* one iteration: dphi is computed, phi += dphi, i++
UnprojectIterate ==
    /\ call.op = "Mercator.unproject"
    /\ call.pc = "for"
    /\ Refining(call.i, call.dphi)
    /\ \E dphi \in Deltas :
         call' = [call EXCEPT !.dphi = dphi,
                              !.phi = NumAdd(call.phi, dphi),
                              !.i = call.i + 1]
    /\ UNCHANGED callOthers

\* the loop is left: return new LatLng(phi * d, (point.x * d) / r)
UnprojectReturn ==
    /\ call.op = "Mercator.unproject"
    /\ call.pc = "for"
    /\ ~Refining(call.i, call.dphi)
    /\ call' = [call EXCEPT
                  !.pc = "returned",
                  !.out = NewLatLng(
                              JsNum(NumMul(call.phi, RadiansToDegrees)),
                              JsNum(NumDiv(NumMul(ToNumber(call.args[1].v.x),
                                                  RadiansToDegrees), Q(R))),
                              JsUndefined)]
    /\ UNCHANGED callOthers

\* the caller has taken the LatLng
UnprojectDone ==
    /\ call.op = "Mercator.unproject"
    /\ call.pc = "returned"
    /\ call' = NoCall
    /\ UNCHANGED callOthers

MercatorNext == UnprojectEnter \/ UnprojectIterate \/ UnprojectReturn \/ UnprojectDone

MercatorSpec == ClipInit /\ [][MercatorNext]_vars

\* a call that has started goes on
FairMercatorSpec ==
    MercatorSpec /\ WF_vars(UnprojectIterate) /\ WF_vars(UnprojectReturn)

----------------------------------------------------------------------------
(* Properties of Mercator.unproject *)

InUnproject == call.op = "Mercator.unproject"

Converged == NumLe(MathAbs(call.dphi), Tolerance)

\* at most MaxIterations iterations; the loop is left short of them only on a
\* delta within the tolerance; what is returned is a LatLng
UnprojectWithinBudget ==
    InUnproject
    => /\ call.i <= MaxIterations
       /\ (call.pc = "returned")
          => /\ call.i < MaxIterations => Converged
             /\ call.out.t = "LatLng"

\* no iteration follows a delta within the tolerance
UnprojectStopsOnConvergence ==
    (InUnproject /\ call.pc = "for" /\ call.i >= 1 /\ Converged)
    => (call'.op = "Mercator.unproject" /\ call'.i = call.i)

\* C20: for every finite point, unproject runs at most 15 iterations and
\* returns; it leaves the loop before the 15th iteration as soon as the
\* absolute value of the last delta is not above 1e-7; and when the 15
\* iterations are used up without convergence it still returns a LatLng,
\* the current estimate, without an error.
UnprojectTerminates ==
    /\ []UnprojectWithinBudget
    /\ [][UnprojectStopsOnConvergence]_vars
    /\ (InUnproject ~> (InUnproject /\ call.pc = "returned" /\ call.out.t = "LatLng"))

\* the budget was used up without convergence and a LatLng came back
UnprojectExhausted ==
    /\ InUnproject
    /\ call.pc = "returned"
    /\ call.i = MaxIterations
    /\ ~Converged
    /\ call.out.t = "LatLng"

----------------------------------------------------------------------------
(* Evented *)

\* the variables that the methods of Evented leave alone
evOthers == <<clipVars, simp, poly, box, call, crs>>

\* the functions and contexts that listeners are registered with
Fns == {"f", "g"}

Contexts == {"undefined", "this", "c"}

\* the call in progress that is not waiting for another
Top(E) == E.stack[Len(E.stack)]

\* a method can be called by the program, when no call is in progress
Idle == ev.ops < MaxOps /\ ev.stack = <<>>

\* or by a listener that is running
CanCallMethod ==
    ev.ops < MaxOps /\ (IF ev.stack = <<>> THEN TRUE ELSE Top(ev).pc = "listener")

\* the method has been called: E is what it has made of the objects
Called(E) ==
    /\ ev' = [E EXCEPT !.ops = ev.ops + 1]
    /\ UNCHANGED evOthers

\* this.on(type, fn, context)
ListenerOn ==
    /\ CanCallMethod
    /\ \E fn \in Fns, context \in Contexts : Called(_on(ev, 1, fn, context, "on"))

\* this.off(type, fn, context)
ListenerOff ==
    /\ CanCallMethod
    /\ \E fn \in Fns, context \in Contexts : Called(_off(ev, 1, fn, context))

\* this.off(type)
ListenerOffType ==
    /\ CanCallMethod
    /\ Called(_off(ev, 1, "undefined", "undefined"))

\* this.off()
ListenerOffAll ==
    /\ CanCallMethod
    /\ Called(offAll(ev, 1))

\* this.once(type, fn)
ListenerOnce ==
    /\ CanCallMethod
    /\ Len(ev.onces) < Len(HandlerNames)
    /\ \E fn \in Fns : Called(once(ev, 1, fn, "undefined"))

\* this.fire(type)
ListenerFire ==
    /\ CanCallMethod
    /\ Called(fire(ev, 1, FALSE, 0))

\* l.fn.call(l.ctx || this, event) and i++: falseFn does nothing, a closure of
\* once runs its two off, and a function of the program starts to run
Invoke ==
    /\ ev.stack # <<>>
    /\ Top(ev).pc = "loop"
    /\ Top(ev).i <= Top(ev).len
    /\ LET n == Len(ev.stack)
           top == Top(ev)
           l == ev.arrays[top.arr][top.i]
           fn == ev.lst[l].fn
           E1 == [ev EXCEPT !.stack[n].i = top.i + 1]
       IN  ev' = IF fn = "falseFn" THEN E1
                 ELSE IF IsHandler(fn) THEN RunHandler(E1, top.obj, fn)
                 ELSE [E1 EXCEPT
                         !.lst[l].calls = @ + 1,
                         !.lst[l].late = ev.lst[l].removed,
                         !.stack[n].invoked = Append(top.invoked, l),
                         !.got = @ \cup {[obj |-> top.obj, lid |-> l, target |-> top.obj,
                                          sourceTarget |-> top.src]},
                         !.stack = Append(@, [top EXCEPT !.pc = "listener", !.lid = l])]
    /\ UNCHANGED evOthers

\* the listener returns
ListenerReturn ==
    /\ ev.stack # <<>>
    /\ Top(ev).pc = "listener"
    /\ ev' = [ev EXCEPT !.stack = SubSeq(@, 1, Len(@) - 1)]
    /\ UNCHANGED evOthers

\* i = len: this._firingCount--
LoopEnd ==
    /\ ev.stack # <<>>
    /\ Top(ev).pc = "loop"
    /\ Top(ev).i > Top(ev).len
    /\ LET n == Len(ev.stack)
           top == Top(ev)
       IN  ev' = [ev EXCEPT
                    !.firingCount[top.obj] = @ - 1,
                    !.stack[n].pc = "propagate",
                    !.stack[n].todo = IF top.propagate
                                      THEN InOrder(ev.parents[top.obj]) ELSE <<>>]
    /\ UNCHANGED evOthers

\* _propagateEvent: the next parent's fire(e.type, extend({...}, e), true),
\* whose data has the sourceTarget of e
Propagate ==
    /\ ev.stack # <<>>
    /\ Top(ev).pc = "propagate"
    /\ Top(ev).todo # <<>>
    /\ LET n == Len(ev.stack)
           top == Top(ev)
       IN  ev' = fire([ev EXCEPT !.stack[n].todo = Tail(top.todo)],
                      Head(top.todo), TRUE, top.src)
    /\ UNCHANGED evOthers

\* return this; last records what the call has done
FireReturn ==
    /\ ev.stack # <<>>
    /\ Top(ev).pc = "propagate"
    /\ Top(ev).todo = <<>>
    /\ ev' = [ev EXCEPT
                 !.stack = SubSeq(@, 1, Len(@) - 1),
                 !.last = [obj |-> Top(ev).obj, propagate |-> Top(ev).propagate,
                           start |-> Top(ev).start, invoked |-> Top(ev).invoked]]
    /\ UNCHANGED evOthers

ListenerNext ==
    \/ ListenerOn
    \/ ListenerOff
    \/ ListenerOffType
    \/ ListenerOffAll
    \/ ListenerOnce
    \/ ListenerFire
    \/ Invoke
    \/ ListenerReturn
    \/ LoopEnd
    \/ FireReturn

ListenerSpec == ClipInit /\ [][ListenerNext]_vars

\* obj.on(type, f), for any of the objects
ParentOn ==
    /\ Idle
    /\ \E o \in EvObjs : Called(_on(ev, o, "f", "undefined", "on"))

\* o.addEventParent(obj), where that leaves the parents without a cycle
AddEventParent ==
    /\ Idle
    /\ \E o \in EvObjs, obj \in EvObjs :
         /\ obj # o
         /\ o \notin Ancestors(ev, obj)
         /\ Called(addEventParent(ev, o, obj))

\* o.removeEventParent(obj)
RemoveEventParent ==
    /\ Idle
    /\ \E o \in EvObjs, obj \in EvObjs : Called(removeEventParent(ev, o, obj))

\* the program calls o.fire(type, data, propagate), data without a
\* sourceTarget: root is the call, got what the listeners are called with
PropagateFire ==
    /\ Idle
    /\ \E o \in EvObjs, propagate \in BOOLEAN :
         Called([fire(ev, o, propagate, 0) EXCEPT
                   !.root = [obj |-> o, propagate |-> propagate, at |-> ev.ops + 1],
                   !.got = {}])

PropagateNext ==
    \/ ParentOn
    \/ AddEventParent
    \/ RemoveEventParent
    \/ PropagateFire
    \/ Invoke
    \/ ListenerReturn
    \/ LoopEnd
    \/ Propagate
    \/ FireReturn

PropagateSpec == ClipInit /\ [][PropagateNext]_vars

\* fire is one synchronous call: once started it runs on
FairPropagateSpec ==
    /\ PropagateSpec
    /\ WF_vars(Invoke)
    /\ WF_vars(ListenerReturn)
    /\ WF_vars(LoopEnd)
    /\ WF_vars(Propagate)
    /\ WF_vars(FireReturn)

----------------------------------------------------------------------------
(* Properties of the listeners of an Evented *)

\* the listener objects that fire has called the function of, left of those
\* that no off has removed
Kept(ls) == SelectSeq(ls, LAMBDA l : ~ev.lst[l].removed)

\* C22: a listener removed by off(type, fn, context), off(type) or off() is
\* never invoked again, also when the off is called by a listener during a
\* fire of the type: the rest of that fire skips the removed listeners and
\* still invokes every listener that was not removed.
RemovedNeverInvoked ==
    /\ \A l \in DOMAIN ev.lst : ~ev.lst[l].late
    /\ \A l \in Range(ev.last.start) : ~ev.lst[l].removed => l \in Range(ev.last.invoked)

\* the listeners of s are in the order in which they were registered, none twice
InRegistrationOrder(s) == \A i \in DOMAIN s, j \in DOMAIN s : i < j => s[i] < s[j]

\* C28: fire(type) invokes every listener that is registered for type when
\* the fire starts and is not removed during it exactly once, in registration
\* order, whichever other listeners are removed during the fire; a listener
\* added during the fire is not invoked by that fire but is registered for
\* the next one; the same function with the same context (omitted or the
\* object itself being the same) is registered once. Stated of the last call
\* of fire that has returned, nested calls included.
FireInvokesEachOnce ==
    /\ Kept(ev.last.invoked) = Kept(ev.last.start)
    /\ InRegistrationOrder(ev.last.start)
    /\ InRegistrationOrder(ev.last.invoked)
    /\ Range(ev.last.invoked) \subseteq Range(ev.last.start)
    /\ \A l \in DOMAIN ev.lst : ~ev.lst[l].removed => l \in Range(Listeners(ev, 1))
    /\ \A l1 \in Range(Listeners(ev, 1)), l2 \in Range(Listeners(ev, 1)) :
          (ev.lst[l1].reg = ev.lst[l2].reg /\ ev.lst[l1].ctx = ev.lst[l2].ctx) => l1 = l2

\* a listener took itself off during the fire and the listener registered
\* after it was invoked all the same
InvokedAfterRemoved ==
    \E i \in DOMAIN ev.last.start, j \in DOMAIN ev.last.start :
        /\ i < j
        /\ ev.lst[ev.last.start[i]].fn = "falseFn"
        /\ ev.last.start[i] \in Range(ev.last.invoked)
        /\ ev.last.start[j] \in Range(Kept(ev.last.invoked))

\* C23: a listener registered with once is invoked exactly once, by the first
\* fire after its registration, and is then removed: no later fire invokes
\* it, a fire started by a listener during that first fire included, and
\* listens no longer counts it.
OnceInvokedOnce ==
    \A l \in DOMAIN ev.lst :
        (ev.lst[l].by = "once")
        => /\ ev.lst[l].calls <= 1
           /\ (ev.stack = <<>> /\ ev.lst[l].calls = 1)
              => (ev.lst[l].removed /\ l \notin Range(Listeners(ev, 1)))

\* the program's call of fire has returned and nothing was called since
FireOver == ev.stack = <<>> /\ ev.root.obj # 0 /\ ev.ops = ev.root.at

\* the objects whose listeners the program's call of fire is to reach
Receivers ==
    IF ev.root.propagate THEN {ev.root.obj} \cup Ancestors(ev, ev.root.obj)
    ELSE {ev.root.obj}

\* every listener of every receiver was called, each with target = the
\* object it listens on and sourceTarget = the object that fired, and no
\* listener of another object was called
PropagateDelivers ==
    FireOver
    => /\ \A a \in Receivers : \A l \in Range(Listeners(ev, a)) :
            [obj |-> a, lid |-> l, target |-> a, sourceTarget |-> ev.root.obj] \in ev.got
       /\ \A d \in ev.got :
            d.obj \in Receivers /\ d.target = d.obj /\ d.sourceTarget = ev.root.obj

\* C24: fire(type, data, true) delivers the event to the listeners on every
\* event parent added and not since removed, transitively, even when the
\* firing object has no listener of the type; each receiving object sees
\* target = itself and sourceTarget = the object that fired. With propagate
\* unset no parent listener is invoked. For an acyclic parent graph fire and
\* listens terminate.
PropagateReachesParents ==
    /\ []PropagateDelivers
    /\ (ev.stack # <<>>) ~> (ev.stack = <<>>)

\* an object without listeners has fired, and a listener on a parent of its
\* parent was called
PropagatedToGrandparent ==
    /\ FireOver
    /\ ev.root.propagate
    /\ Listeners(ev, ev.root.obj) = <<>>
    /\ \E d \in ev.got : d.obj \notin {p[2] : p \in ev.parents[ev.root.obj]}

(***************************************************************************)
(* stamp                                                                   *)
(***************************************************************************)

\* the program calls stamp(obj); call keeps the object and the ID returned
Stamp ==
    /\ ev.ops < MaxStamps
    /\ \E obj \in StampObjs :
         LET r == stamp(ev, obj)
         IN  /\ ev' = [r.E EXCEPT !.ops = ev.ops + 1]
             /\ call' = [op |-> "stamp", args |-> <<obj>>, out |-> r.val]
    /\ UNCHANGED <<clipVars, simp, poly, box, crs>>

StampNext == Stamp

StampSpec == ClipInit /\ [][StampNext]_vars

\* the objects that have an ID
Stamped == {o \in StampObjs : ev.ids[o] # 0}

\* distinct objects have distinct IDs, and every ID is a positive integer
\* that is at most lastId
StampIdsUnique ==
    /\ \A o \in Stamped : ev.ids[o] \in 1..ev.lastId
    /\ \A o1 \in Stamped, o2 \in Stamped : ev.ids[o1] = ev.ids[o2] => o1 = o2

\* a call of stamp returns the ID that the object has from then on; an
\* object that had an ID keeps it and lastId stays; an object that had none
\* makes lastId grow by exactly one; no other object's ID changes
StampStep ==
    LET obj == call'.args[1]
    IN  /\ call'.out = ev'.ids[obj]
        /\ \A o \in StampObjs \ {obj} : ev'.ids[o] = ev.ids[o]
        /\ IF obj \in Stamped
            THEN ev'.ids[obj] = ev.ids[obj] /\ ev'.lastId = ev.lastId
            ELSE ev'.lastId = ev.lastId + 1

\* C25: stamp(obj) assigns an object an ID on its first call and returns
\* that same ID on every later call for the object; two distinct objects
\* never have the same ID, every assigned ID is a positive integer <= lastId,
\* and lastId never decreases and grows by exactly one per newly stamped
\* object.
StampIdsStable == []StampIdsUnique /\ [][StampStep]_vars

\* an object that has an ID is stamped again, after another object
StampedAgain ==
    /\ call.op = "stamp"
    /\ ev.lastId >= 2
    /\ ev.ops > ev.lastId
    /\ ev.ids[call.args[1]] = 1

(***************************************************************************)
(* closestPointOnSegment and pointToSegmentDistance                        *)
(***************************************************************************)

\* the program calls both functions with the same arguments
ClosestPointOnSegment ==
    /\ call.op = "none"
    /\ \E p \in Points, p1 \in Points, p2 \in Points :
         call' = [op |-> "closestPointOnSegment", args |-> <<p, p1, p2>>,
                  out |-> [point |-> closestPointOnSegment(p, p1, p2),
                           distance |-> pointToSegmentDistance(p, p1, p2)]]
    /\ UNCHANGED callOthers

SegmentNext == ClosestPointOnSegment \/ CallDone

SegmentSpec == ClipInit /\ [][SegmentNext]_vars

NumEq(x, y) == NumLe(x, y) /\ NumLe(y, x)

\* (a - o) . (b - o)
DotAt(o, a, b) ==
    NumAdd(NumMul(NumSub(a.x, o.x), NumSub(b.x, o.x)),
           NumMul(NumSub(a.y, o.y), NumSub(b.y, o.y)))

\* (a - o) x (b - o)
CrossAt(o, a, b) ==
    NumSub(NumMul(NumSub(a.x, o.x), NumSub(b.y, o.y)),
           NumMul(NumSub(a.y, o.y), NumSub(b.x, o.x)))

\* c is a point of the finite segment p1-p2
OnSegment(c, p1, p2) ==
    /\ NumEq(CrossAt(p1, c, p2), Q(0))
    /\ NumLe(NumMin(p1.x, p2.x), c.x) /\ NumLe(c.x, NumMax(p1.x, p2.x))
    /\ NumLe(NumMin(p1.y, p2.y), c.y) /\ NumLe(c.y, NumMax(p1.y, p2.y))

\* the point p1 + (k / 8) (p2 - p1)
Along(p1, p2, k) ==
    [x |-> NumAdd(p1.x, NumMul(Frac(k, 8), NumSub(p2.x, p1.x))),
     y |-> NumAdd(p1.y, NumMul(Frac(k, 8), NumSub(p2.y, p1.y)))]

\* C26: closestPointOnSegment(p, p1, p2) returns a point of the finite
\* segment p1-p2 that no other point of the segment is closer to p than: the
\* orthogonal projection of p when its parameter t lies in (0, 1], p2 when
\* t > 1, and p1 when t <= 0 or p1 = p2; and pointToSegmentDistance(p, p1, p2)
\* squared equals the squared distance from p to that point. (A point c of a
\* segment is closest to p exactly when (p - c) . (q - c) <= 0 at both ends q.)
ClosestIsOnSegmentAndNearest ==
    (call.op = "closestPointOnSegment")
    => LET p    == call.args[1]
           p1   == call.args[2]
           p2   == call.args[3]
           c    == call.out.point
           tnum == DotAt(p1, p, p2)
           dot  == DotAt(p1, p2, p2)
       IN  /\ OnSegment(c, p1, p2)
           /\ NumLe(DotAt(c, p, p1), Q(0))
           /\ NumLe(DotAt(c, p, p2), Q(0))
           /\ \A k \in 0..8 : NumLe(sqDist(p, c), sqDist(p, Along(p1, p2, k)))
           /\ (NumEq(dot, Q(0)) \/ NumLe(tnum, Q(0)))
              => (NumEq(c.x, p1.x) /\ NumEq(c.y, p1.y))
           /\ NumGt(tnum, dot) => (NumEq(c.x, p2.x) /\ NumEq(c.y, p2.y))
           /\ (NumGt(tnum, Q(0)) /\ NumLe(tnum, dot))
              => NumEq(NumSub(DotAt(p1, c, p2), tnum), Q(0))
           /\ NumEq(call.out.distance.sqrt, sqDist(p, c))

\* p projects beyond p2, off the line, and is nearest to p2
ClosestIsFarEnd ==
    /\ call.op = "closestPointOnSegment"
    /\ NumGt(DotAt(call.args[2], call.args[1], call.args[3]),
             DotAt(call.args[2], call.args[3], call.args[3]))
    /\ ~NumEq(CrossAt(call.args[2], call.args[1], call.args[3]), Q(0))
    /\ NumEq(call.out.point.x, call.args[3].x)
    /\ NumEq(call.out.point.y, call.args[3].y)
    /\ NumGt(call.out.distance.sqrt, Q(1))

(***************************************************************************)
(* Bounds.extend and the objects it keeps                                  *)
(*                                                                         *)
(* Points are objects here: heap[a] holds the x and y of the Point at      *)
(* address a; min and max of the Bounds are addresses, 0 when not set;     *)
(* passed are the Points that the program has given to extend.             *)
(***************************************************************************)

NewHeapBounds ==
    [heap |-> <<>>, min |-> 0, max |-> 0, passed |-> {}, n |-> 0,
     last |-> [op |-> "new", p |-> 0]]

AliasInit ==
    /\ lastCode = Undefined
    /\ clip = IdleFrame
    /\ ref = IdleFrame
    /\ walk = [w \in 1..2 |-> IdleWalker]
    /\ walkers = 1
    /\ simp = SimpIdle
    /\ poly = PolyIdle
    /\ box = NewHeapBounds
    /\ crs = NewCrs
    /\ ev = NewEvented
    /\ call = NoCall

\* new Point(x, y): the object is at the end of the heap
Alloc(B, x, y) == [B EXCEPT !.heap = Append(@, NewPoint(x, y, FALSE))]

\* the address of the object that Alloc has made
Newest(B) == Len(B.heap)

\* p.clone(), for the Point at address p
cloneAt(B, p) == Alloc(B, B.heap[p].x, B.heap[p].y)

\* p._add(point), for the Point at address p: in place
_addAt(B, p, point) ==
    [B EXCEPT !.heap[p] = [x |-> NumAdd(@.x, point.x), y |-> NumAdd(@.y, point.y)]]

\* an extend that keeps the Point it is given as min and as max
extendKeeping(B, p) ==
    IF B.min = 0 \/ B.max = 0
    THEN [B EXCEPT !.min = p, !.max = p]
    ELSE LET h1 == [B.heap EXCEPT ![B.min].x = NumMin(B.heap[p].x, @)]
             h2 == [h1 EXCEPT ![B.max].x = NumMax(h1[p].x, @)]
             h3 == [h2 EXCEPT ![B.min].y = NumMin(h2[p].y, @)]
             h4 == [h3 EXCEPT ![B.max].y = NumMax(h3[p].y, @)]
         IN  [B EXCEPT !.heap = h4]

\* Bounds.extend(point) for the Point at address p (toPoint returns a Point
\* as it is): the four assignments to this.min and this.max one by one
extendAt(B, p) ==
    IF B.min = 0 \/ B.max = 0
    THEN LET B1 == cloneAt(B, p)
             B2 == cloneAt(B1, p)
         IN  [B2 EXCEPT !.min = Newest(B1), !.max = Newest(B2)]
    ELSE LET h1 == [B.heap EXCEPT ![B.min].x = NumMin(B.heap[p].x, @)]
             h2 == [h1 EXCEPT ![B.max].x = NumMax(h1[p].x, @)]
             h3 == [h2 EXCEPT ![B.min].y = NumMin(h2[p].y, @)]
             h4 == [h3 EXCEPT ![B.max].y = NumMax(h3[p].y, @)]
         IN  [B EXCEPT !.heap = h4]

AliasCoords == {Q(0), Q(1), Q(2)}

AliasDeltas == {Pt(1, 0), Pt(0, -1), Pt(2, 2)}

\* the program has called extend or _add with the Point at p
Aliased(B, op, p) ==
    /\ box' = [B EXCEPT !.n = box.n + 1, !.last = [op |-> op, p |-> p],
                        !.passed = IF op = "extend" THEN @ \cup {p} ELSE @]
    /\ UNCHANGED boxOthers

\* bounds.extend(new Point(x, y))
AliasExtendNew ==
    /\ box.n < MaxExtends
    /\ \E x \in AliasCoords, y \in AliasCoords :
         LET B == Alloc(box, x, y)
         IN  Aliased(extendAt(B, Newest(B)), "extend", Newest(B))

\* bounds.extend(p), for a Point that the program has passed before
AliasExtendAgain ==
    /\ box.n < MaxExtends
    /\ \E p \in box.passed : Aliased(extendAt(box, p), "extend", p)

\* p._add(point), for a Point that the program has passed to extend
AliasAdd ==
    /\ box.n < MaxExtends
    /\ \E p \in box.passed, point \in AliasDeltas :
         Aliased(_addAt(box, p, point), "_add", p)

AliasNext == AliasExtendNew \/ AliasExtendAgain \/ AliasAdd

AliasSpec == AliasInit /\ [][AliasNext]_vars

\* min and max are two objects, and neither is a Point of the program
CornersApart ==
    (box.min # 0)
    => /\ box.max # 0
       /\ box.min # box.max
       /\ box.min \notin box.passed
       /\ box.max \notin box.passed

\* one call of extend or _add with the Point at p: _add changes neither
\* corner; the first extend makes min and max copies of p; a later extend
\* keeps the corner objects, leaves alone the corner that p does not pass,
\* and no extend changes p or a Point passed before
CornersKept ==
    LET p == box'.last.p
    IN  /\ (box'.last.op = "_add")
           => /\ box'.min = box.min /\ box'.max = box.max
              /\ box.min # 0 => /\ box'.heap[box.min] = box.heap[box.min]
                                /\ box'.heap[box.max] = box.heap[box.max]
        /\ (box'.last.op = "extend")
           => /\ \A a \in box.passed : box'.heap[a] = box.heap[a]
              /\ p \in DOMAIN box.heap => box'.heap[p] = box.heap[p]
              /\ (box.min = 0)
                 => /\ box'.heap[box'.min] = box'.heap[p]
                    /\ box'.heap[box'.max] = box'.heap[p]
              /\ (box.min # 0)
                 => /\ box'.min = box.min /\ box'.max = box.max
                    /\ (NumGe(box'.heap[p].x, box.heap[box.min].x)
                        /\ NumGe(box'.heap[p].y, box.heap[box.min].y))
                       => box'.heap[box.min] = box.heap[box.min]
                    /\ (NumLe(box'.heap[p].x, box.heap[box.max].x)
                        /\ NumLe(box'.heap[p].y, box.heap[box.max].y))
                       => box'.heap[box.max] = box.heap[box.max]

\* C27: the first extend(p) on an empty Bounds stores two separate copies of
\* p as min and max: min, max and p are three distinct objects, so that a
\* later in-place mutation of p (p._add) leaves the bounds unchanged, and a
\* later extend that lowers min or raises max changes neither the other
\* corner nor p nor any point previously passed to extend.
ExtendCopiesCorners == []CornersApart /\ [][CornersKept]_vars

\* the first Point was moved beyond max after it was passed, and a later
\* extend has lowered min
MovedAfterExtend ==
    /\ box.last.op = "extend"
    /\ Cardinality(box.passed) = 2
    /\ \E a \in box.passed : NumGt(box.heap[a].x, box.heap[box.max].x)
    /\ NumLt(box.heap[box.min].x, box.heap[box.max].x)

(***************************************************************************)
(* getBitCode and Bounds.contains                                          *)
(***************************************************************************)

\* the coordinates of the points: the grid and the two infinities
CodeCoords == {Q(i) : i \in -1..MaxCoord} \cup {Inf(1), Inf(-1)}

CodePoints == {NewPoint(x, y, FALSE) : x \in CodeCoords, y \in CodeCoords}

\* the valid Bounds of the grid: min.x <= max.x and min.y <= max.y
CodeBounds ==
    {b \in {MkBounds(x1, y1, x2, y2) :
                x1 \in -1..MaxCoord, y1 \in -1..MaxCoord,
                x2 \in -1..MaxCoord, y2 \in -1..MaxCoord} :
        NumLe(b.min.x, b.max.x) /\ NumLe(b.min.y, b.max.y)}

\* the program calls getBitCode(p, bounds) and bounds.contains(p)
GetBitCode ==
    /\ call.op = "none"
    /\ \E p \in CodePoints, bounds \in CodeBounds :
         call' = [op |-> "getBitCode", args |-> <<p, bounds>>,
                  out |-> [code |-> getBitCode(p, bounds),
                           contains |-> Contains(bounds, p)]]
    /\ UNCHANGED callOthers

CodeNext == GetBitCode \/ CallDone

CodeSpec == ClipInit /\ [][CodeNext]_vars

====
